---- MODULE Spec2Model ----
(***************************************************************************)
(* State-machine model of the physics engine of src/src/SupplyChainGraph.js *)
(* (the usePhysicsEngine hook and the SupplyChainGraph handlers that mutate *)
(* its state).                                                              *)
(*                                                                          *)
(* JavaScript Numbers are modelled in fixed point: a Number v is the        *)
(* integer v * Unit, truncated toward zero after every multiplication and   *)
(* division.  The one non-finite value the engine produces, NaN (0 / 0 in   *)
(* calculateHookeAttraction), is a value of its own that every arithmetic   *)
(* operator propagates and every comparison answers FALSE to, as IEEE 754   *)
(* does.                                                                    *)
(***************************************************************************)
EXTENDS Integers, Sequences, FiniteSets, TLC

(***************************************************************************)
(* Numbers                                                                  *)
(***************************************************************************)
\* The fixed-point scale: three decimal places.
Unit == 10 * 10 * 10

\* The decimal n / d as a Number.
Num(n, d) == (n * Unit) \div d

\* NaN, a value apart from every Number the engine computes.
NaN == -2 * Unit * Unit * Unit

IsNaN(a) == a = NaN

Finite(a) == a # NaN

Abs(a) == IF a < 0 THEN -a ELSE a

Sgn(a) == IF a < 0 THEN -1 ELSE 1

Min(a, b) == IF a <= b THEN a ELSE b

Max(a, b) == IF a >= b THEN a ELSE b

Add(a, b) == IF IsNaN(a) \/ IsNaN(b) THEN NaN ELSE a + b

Sub(a, b) == IF IsNaN(a) \/ IsNaN(b) THEN NaN ELSE a - b

\* a * b, the larger factor split into its integer and fractional part so
\* that no intermediate product leaves the 32-bit range.
MulFin(a, b) ==
  LET m == Min(Abs(a), Abs(b))
      M == Max(Abs(a), Abs(b))
  IN  Sgn(a) * Sgn(b) * (m * (M \div Unit) + (m * (M % Unit)) \div Unit)

Mul(a, b) == IF IsNaN(a) \/ IsNaN(b) THEN NaN ELSE MulFin(a, b)

\* a / b by long division.
DivFin(a, b) ==
  LET p == Abs(a)
      q == Abs(b)
  IN  Sgn(a) * Sgn(b) * ((p \div q) * Unit + ((p % q) * Unit) \div q)

\* 0 / 0 is NaN.  (x / 0 with x # 0 would be an infinity; the engine never
\* divides a non-zero value by zero: its divisors are dist + 1 >= 1, a
\* speed > MAX_VELOCITY, and an edge length that is zero only together with
\* both coordinate differences.)
Div(a, b) ==
  IF IsNaN(a) \/ IsNaN(b) \/ b = 0 THEN NaN ELSE DivFin(a, b)

\* Comparisons with NaN are false.
Lt(a, b) == Finite(a) /\ Finite(b) /\ a < b

Gt(a, b) == Finite(a) /\ Finite(b) /\ a > b

RECURSIVE ISqrtIter(_, _)
ISqrtIter(n, r) ==
  LET r2 == (r + n \div r) \div 2
  IN  IF r2 >= r THEN r ELSE ISqrtIter(n, r2)

\* Integer square root (Newton's iteration from a start r0 >= sqrt(n)).
ISqrt(n, r0) == IF n = 0 THEN 0 ELSE ISqrtIter(n, r0)

RECURSIVE Shrink(_)
Shrink(m) == IF m <= 32767 THEN 1 ELSE 2 * Shrink(m \div 2)

\* sqrt(a * a + b * b) for 0 <= a, b <= 32767
HypotSmall(a, b) == ISqrt(a * a + b * b, a + b)

HypotBy(a, b, k) == k * HypotSmall(a \div k, b \div k)

\* Math.sqrt(dx * dx + dy * dy): large arguments lose their low bits, as a
\* floating-point mantissa does, so that the squares stay in range.
Hypot(dx, dy) ==
  IF IsNaN(dx) \/ IsNaN(dy) THEN NaN
  ELSE HypotBy(Abs(dx), Abs(dy), Shrink(Max(Abs(dx), Abs(dy))))

(***************************************************************************)
(* Physics constants                                                        *)
(***************************************************************************)
COULOMB_CONSTANT == Num(5000, 1)

HOOKE_CONSTANT == Num(5, 100)

SPRING_LENGTH == Num(120, 1)

DAMPING == Num(92, 100)

MAX_VELOCITY == Num(15, 1)

TIME_STEP == Num(16, 1000)

SHOCKWAVE_DECAY == Num(95, 100)

STRESS_THRESHOLD == Num(7, 10)

\* The age at which the step drops a shockwave (sw.age < 300).
MAX_AGE == 300

\* The force under which the step drops a shockwave (sw.force > 0.1).
MIN_FORCE == Num(1, 10)

\* Math.pow(SHOCKWAVE_DECAY, age) is tabulated at the resolution PowScale.
PowScale == Unit * Unit * Unit

\* a * b at the resolution PowScale, digit by digit in base Unit.
MulHi(a, b) ==
  LET a2 == a \div (Unit * Unit)
      a1 == (a \div Unit) % Unit
      a0 == a % Unit
      b2 == b \div (Unit * Unit)
      b1 == (b \div Unit) % Unit
      b0 == b % Unit
  IN  a2 * b2 * Unit + a2 * b1 + a1 * b2
      + (a2 * b0 + a1 * b1 + a0 * b2
         + (a1 * b0 + a0 * b1 + (a0 * b0) \div Unit) \div Unit) \div Unit

\* base ^ n at the resolution PowScale, by repeated squaring.
RECURSIVE PowHi(_, _)
PowHi(base, n) ==
  IF n = 0 THEN PowScale
  ELSE LET h == PowHi(base, n \div 2)
           sq == MulHi(h, h)
       IN  IF n % 2 = 1 THEN MulHi(sq, base) ELSE sq

PowTable ==
  [age \in 0..MAX_AGE |-> PowHi(SHOCKWAVE_DECAY * Unit * Unit, age)]

\* SHOCKWAVE_DECAY ^ age at the resolution PowScale.
PowDecayHi(age) == PowTable[age]

\* Math.pow(SHOCKWAVE_DECAY, age) as a Number.
PowDecay(age) == PowDecayHi(age) \div (PowScale \div Unit)

(***************************************************************************)
(* Construction data                                                        *)
(***************************************************************************)
Node0(id, type, x, y, stress, label) ==
  [id |-> id, type |-> type, x |-> Num(x, 1), y |-> Num(y, 1),
   stress |-> Num(stress, 10), label |-> label]

INITIAL_NODES ==
  << Node0(0, "SUPPLIER", 400, 100, 2, "S1"),
     Node0(1, "SUPPLIER", 600, 100, 4, "S2"),
     Node0(2, "SUPPLIER", 500, 200, 1, "S3"),
     Node0(3, "WAREHOUSE", 300, 350, 6, "W1"),
     Node0(4, "WAREHOUSE", 700, 350, 3, "W2"),
     Node0(5, "WAREHOUSE", 500, 450, 8, "D1"),
     Node0(6, "RETAILER", 150, 550, 2, "R1"),
     Node0(7, "RETAILER", 350, 550, 5, "R2"),
     Node0(8, "RETAILER", 500, 580, 4, "R3"),
     Node0(9, "RETAILER", 650, 550, 3, "R4"),
     Node0(10, "RETAILER", 800, 520, 7, "R5") >>

Edge0(s, t) == [source |-> s, target |-> t]

INITIAL_EDGES ==
  << Edge0(0, 3), Edge0(0, 2), Edge0(1, 2), Edge0(1, 4), Edge0(2, 3),
     Edge0(2, 4), Edge0(2, 5), Edge0(3, 5), Edge0(3, 6), Edge0(3, 7),
     Edge0(4, 5), Edge0(4, 9), Edge0(4, 10), Edge0(5, 7), Edge0(5, 8),
     Edge0(5, 9), Edge0(6, 7), Edge0(7, 8), Edge0(8, 9), Edge0(9, 10) >>

\* mass: 1 + n.stress * 0.5
MassOf(stress) == Add(Num(1, 1), Mul(stress, Num(5, 10)))

\* The node objects usePhysicsEngine builds from its nodes argument.
MakeNode(n) ==
  [id |-> n.id, type |-> n.type, x |-> n.x, y |-> n.y, stress |-> n.stress,
   label |-> n.label, vx |-> 0, vy |-> 0, ax |-> 0, ay |-> 0,
   mass |-> MassOf(n.stress)]

\* The array with the elements f[1], ..., f[n].
Array(f) == << >> \o f

\* a[lo] + ... + a[hi] (halving, so that the evaluation stays shallow).
RECURSIVE SumRange(_, _, _)
SumRange(a, lo, hi) ==
  IF lo > hi THEN 0
  ELSE IF lo = hi THEN a[lo]
  ELSE LET mid == (lo + hi) \div 2
       IN  Add(SumRange(a, lo, mid), SumRange(a, mid + 1, hi))

Sum(a) == SumRange(a, 1, Len(a))

\* allNodes[i] of a JavaScript array (0-based).
At(seq, i) == seq[i + 1]

(***************************************************************************)
(* Forces                                                                   *)
(*                                                                          *)
(* A value the source names with const and uses several times is an         *)
(* operator parameter here (dx, dy, dist, force, ...): the operator that    *)
(* computes it passes it on to the operator that uses it.                   *)
(***************************************************************************)
Force(fx, fy) == [fx |-> fx, fy |-> fy]

\* fx and fy summed over the array terms.
SumForces(terms) ==
  Force(Sum(Array([i \in 1..Len(terms) |-> terms[i].fx])),
        Sum(Array([i \in 1..Len(terms) |-> terms[i].fy])))

\* An accumulation that divides each force by the mass of the node.
AddForceByMass(node, f) ==
  [node EXCEPT !.ax = Add(@, Div(f.fx, node.mass)),
               !.ay = Add(@, Div(f.fy, node.mass))]

\* nodes[i].ax += fx; nodes[i].ay += fy
AddForce(node, f) ==
  [node EXCEPT !.ax = Add(@, f.fx), !.ay = Add(@, f.fy)]

\* (dx / dist) * force, (dy / dist) * force
Along(dx, dy, dist, force) ==
  Force(Mul(Div(dx, dist), force), Mul(Div(dy, dist), force))

\* stressFactor = 1 + node.stress * STRESS_THRESHOLD;
\* force = (COULOMB_CONSTANT * stressFactor) / (dist * dist)
CoulombForce(stress, dist) ==
  Div(Div(Mul(COULOMB_CONSTANT,
              Add(Num(1, 1), Mul(stress, STRESS_THRESHOLD))), dist), dist)

\* dist = Math.sqrt(dx * dx + dy * dy) + 1 and the force along (dx, dy)
CoulombAt(dx, dy, dist, stress) ==
  Along(dx, dy, dist, CoulombForce(stress, dist))

CoulombDelta(dx, dy, stress) ==
  CoulombAt(dx, dy, Add(Hypot(dx, dy), Num(1, 1)), stress)

\* One iteration of the loop of calculateCoulombRepulsion.
CoulombTerm(node, other) ==
  CoulombDelta(Sub(node.x, other.x), Sub(node.y, other.y), node.stress)

\* calculateCoulombRepulsion: fx and fy summed over i # nodeIndex.
CalculateCoulombRepulsion(nodeIndex, allNodes) ==
  SumForces(Array([i \in 1..Len(allNodes) |->
                     IF i - 1 = nodeIndex THEN Force(0, 0)
                     ELSE CoulombTerm(At(allNodes, nodeIndex),
                                      At(allNodes, i - 1))]))

\* displacement = dist - SPRING_LENGTH; force = HOOKE_CONSTANT * displacement
HookeOf(f, displacement) ==
  [fx |-> f.fx, fy |-> f.fy,
   tension |-> IF IsNaN(displacement) THEN NaN ELSE Abs(displacement)]

HookeAt(dx, dy, dist, displacement) ==
  HookeOf(Along(dx, dy, dist, Mul(HOOKE_CONSTANT, displacement)),
          displacement)

\* calculateHookeAttraction with displacement = dist (no rest length).
HookeDistNoRest(dx, dy, dist) == HookeAt(dx, dy, dist, dist)

HookeDist(dx, dy, dist) == HookeAt(dx, dy, dist, Sub(dist, SPRING_LENGTH))

HookeDelta(dx, dy) == HookeDist(dx, dy, Hypot(dx, dy))

HookeBetween(source, target) ==
  HookeDelta(Sub(target.x, source.x), Sub(target.y, source.y))

CalculateHookeAttraction(edge, allNodes) ==
  HookeBetween(At(allNodes, edge.source), At(allNodes, edge.target))

\* The boundary force on one axis: coordinate v, viewport extent size.
BoundaryAxis(v, size, margin, boundaryK) ==
  Add(IF Lt(v, margin) THEN Mul(Sub(margin, v), boundaryK) ELSE 0,
      IF Gt(v, Sub(size, margin))
      THEN Mul(Sub(Sub(size, margin), v), boundaryK) ELSE 0)

\* calculateBoundaryForces with width and height taken for each other.
CalculateBoundaryForcesSwapped(node, width, height) ==
  Force(BoundaryAxis(node.x, height, Num(50, 1), Num(1, 10)),
        BoundaryAxis(node.y, width, Num(50, 1), Num(1, 10)))

CalculateBoundaryForces(node, width, height) ==
  Force(BoundaryAxis(node.x, width, Num(50, 1), Num(1, 10)),
        BoundaryAxis(node.y, height, Num(50, 1), Num(1, 10)))

\* fx += (dx / dist) * impact * decay; fy += (dy / dist) * impact * decay
ShockwaveAlong(dx, dy, dist, impact, decay) ==
  Force(Mul(Mul(Div(dx, dist), impact), decay),
        Mul(Mul(Div(dy, dist), impact), decay))

\* applyShockwaves without the decay: a shockwave keeps its full impact.
ShockwaveAtUndecayed(dx, dy, dist, sw) ==
  ShockwaveAlong(dx, dy, dist, Div(Div(sw.force, dist), dist), Num(1, 1))

\* impact = sw.force / (dist * dist); decay = Math.pow(SHOCKWAVE_DECAY, sw.age)
ShockwaveAt(dx, dy, dist, sw) ==
  ShockwaveAlong(dx, dy, dist, Div(Div(sw.force, dist), dist),
                 PowDecay(sw.age))

ShockwaveDelta(dx, dy, sw) ==
  ShockwaveAt(dx, dy, Add(Hypot(dx, dy), Num(1, 1)), sw)

\* One iteration of the forEach of applyShockwaves.
ShockwaveTerm(node, sw) ==
  ShockwaveDelta(Sub(node.x, sw.x), Sub(node.y, sw.y), sw)

\* applyShockwaves with fx = ... in place of fx += ...: the last shockwave
\* alone acts.
ApplyShockwavesLast(node, sws) ==
  IF sws = << >> THEN Force(0, 0) ELSE ShockwaveTerm(node, sws[Len(sws)])

\* applyShockwaves(node): fx and fy summed over the active shockwaves.
ApplyShockwaves(node, sws) ==
  SumForces(Array([k \in 1..Len(sws) |-> ShockwaveTerm(node, sws[k])]))

(***************************************************************************)
(* The simulation step                                                      *)
(***************************************************************************)
\* A step that leaves node.ax and node.ay as the previous step left them.
ResetAccelerationsKeep(ns) == ns

\* Reset accelerations
ResetAccelerations(ns) ==
  Array([i \in 1..Len(ns) |-> [ns[i] EXCEPT !.ax = 0, !.ay = 0]])

\* Apply Coulomb repulsion (all pairs)
ApplyCoulomb(ns) ==
  Array([i \in 1..Len(ns) |->
           AddForce(ns[i], CalculateCoulombRepulsion(i - 1, ns))])

\* An edges.forEach that adds the spring force to both ends of the edge.
HookeOnBothAdded(i, es, h) ==
  Force(Sum(Array([k \in 1..Len(es) |->
                     IF es[k].source = i \/ es[k].target = i
                     THEN h[k].fx ELSE 0])),
        Sum(Array([k \in 1..Len(es) |->
                     IF es[k].source = i \/ es[k].target = i
                     THEN h[k].fy ELSE 0])))

\* What edges.forEach adds to the acceleration of the node at index i, h[k]
\* being the spring force of edge k: + h[k] for nodes[edge.source],
\* - h[k] for nodes[edge.target].
HookeOn(i, es, h) ==
  Force(Sub(Sum(Array([k \in 1..Len(es) |->
                         IF es[k].source = i THEN h[k].fx ELSE 0])),
            Sum(Array([k \in 1..Len(es) |->
                         IF es[k].target = i THEN h[k].fx ELSE 0]))),
        Sub(Sum(Array([k \in 1..Len(es) |->
                         IF es[k].source = i THEN h[k].fy ELSE 0])),
            Sum(Array([k \in 1..Len(es) |->
                         IF es[k].target = i THEN h[k].fy ELSE 0]))))

\* The nodes and totalTension after edges.forEach, h the spring forces.
HookeResult(ns, es, h) ==
  [nodes |-> Array([i \in 1..Len(ns) |->
                      AddForce(ns[i], HookeOn(i - 1, es, h))]),
   totalTension |-> Sum(Array([k \in 1..Len(es) |-> h[k].tension]))]

\* Apply Hooke attraction (connected pairs)
ApplyHooke(ns, es) ==
  HookeResult(ns, es,
              Array([k \in 1..Len(es) |->
                       CalculateHookeAttraction(es[k], ns)]))

\* Apply boundary forces
ApplyBoundary(ns, width, height) ==
  Array([i \in 1..Len(ns) |->
           AddForce(ns[i], CalculateBoundaryForces(ns[i], width, height))])

\* Apply shockwave forces
ApplyShockwaveForces(ns, sws) ==
  Array([i \in 1..Len(ns) |-> AddForce(ns[i], ApplyShockwaves(ns[i], sws))])

\* if (speed > MAX_VELOCITY) { vx = (vx / speed) * MAX_VELOCITY; ... }
Cap(vx, vy, speed) ==
  IF Gt(speed, MAX_VELOCITY)
  THEN [vx |-> Mul(Div(vx, speed), MAX_VELOCITY),
        vy |-> Mul(Div(vy, speed), MAX_VELOCITY)]
  ELSE [vx |-> vx, vy |-> vy]

\* Cap velocity: speed = Math.sqrt(vx * vx + vy * vy)
CapVelocity(vx, vy) == Cap(vx, vy, Hypot(vx, vy))

\* Update position: node.x += node.vx * TIME_STEP, the velocity being v.
Move(node, v) ==
  [node EXCEPT !.vx = v.vx, !.vy = v.vy,
               !.x = Add(@, Mul(v.vx, TIME_STEP)),
               !.y = Add(@, Mul(v.vy, TIME_STEP))]

\* Acceleration to velocity, then damping: (v + a * TIME_STEP) * DAMPING
Damped(v, a) == Mul(Add(v, Mul(a, TIME_STEP)), DAMPING)

\* An integration that caps the velocity before it applies the damping.
IntegrateCapFirst(node) ==
  LET v == CapVelocity(Add(node.vx, Mul(node.ax, TIME_STEP)),
                       Add(node.vy, Mul(node.ay, TIME_STEP)))
  IN  Move(node, [vx |-> Mul(v.vx, DAMPING), vy |-> Mul(v.vy, DAMPING)])

\* Update velocities and positions (Euler integration) of one node.
Integrate(node) ==
  Move(node, CapVelocity(Damped(node.vx, node.ax), Damped(node.vy, node.ay)))

\* 0.5 * node.mass * (node.vx * node.vx + node.vy * node.vy)
KineticEnergy(node) ==
  Mul(Mul(Num(5, 10), node.mass),
      Add(Mul(node.vx, node.vx), Mul(node.vy, node.vy)))

\* The filter without its age test.
AliveUncapped(sw) == Gt(sw.force, MIN_FORCE)

\* .filter(sw => sw.force > 0.1 && sw.age < 300)
Alive(sw) == Gt(sw.force, MIN_FORCE) /\ sw.age < MAX_AGE

\* An aging that also weakens the shockwave: force * SHOCKWAVE_DECAY.
AgedWeakened(sw) ==
  [sw EXCEPT !.age = @ + 1, !.force = Mul(@, SHOCKWAVE_DECAY)]

\* .map(sw => ({ ...sw, age: sw.age + 1 }))
Aged(sw) == [sw EXCEPT !.age = @ + 1]

\* Update shockwaves (age and remove dead ones)
RECURSIVE UpdateShockwaves(_)
UpdateShockwaves(sws) ==
  IF sws = << >> THEN << >>
  ELSE IF Alive(Aged(Head(sws)))
  THEN <<Aged(Head(sws))>> \o UpdateShockwaves(Tail(sws))
  ELSE UpdateShockwaves(Tail(sws))

\* Math.log(avgVelocity + 0.001) * -1: the logarithm is left symbolic.
Entropy(totalKineticEnergy, n) ==
  [negLogOf |-> Add(Div(totalKineticEnergy, Num(n, 1)), Num(1, 1000))]

Stats(ke, tension, entropy) ==
  [kineticEnergy |-> ke, tension |-> tension, networkEntropy |-> entropy]

\* The nodes with their accelerations accumulated, and totalTension.
AfterHooke(a, sws, width, height) ==
  [nodes |-> ApplyShockwaveForces(ApplyBoundary(a.nodes, width, height), sws),
   totalTension |-> a.totalTension]

Accelerate(ns, es, sws, width, height) ==
  AfterHooke(ApplyHooke(ApplyCoulomb(ResetAccelerations(ns)), es),
             sws, width, height)

\* What the step leaves and publishes, moved being the integrated nodes.
Publish(moved, totalKineticEnergy, totalTension, sws) ==
  [nodes |-> moved,
   shockwaves |-> UpdateShockwaves(sws),
   stats |-> Stats(totalKineticEnergy, totalTension,
                   Entropy(totalKineticEnergy, Len(moved)))]

Integrated(moved, totalTension, sws) ==
  Publish(moved,
          Sum(Array([i \in 1..Len(moved) |-> KineticEnergy(moved[i])])),
          totalTension, sws)

IntegrateAll(a, sws) ==
  Integrated(Array([i \in 1..Len(a.nodes) |-> Integrate(a.nodes[i])]),
             a.totalTension, sws)

\* simulationStep: the physics state it leaves and the stats it publishes.
SimulationStep(ns, es, sws, width, height) ==
  IntegrateAll(Accelerate(ns, es, sws, width, height), sws)

(***************************************************************************)
(* State                                                                    *)
(***************************************************************************)
VARIABLES
  nodes,         \* physicsState.current.nodes
  edges,         \* physicsState.current.edges
  shockwaves,    \* physicsState.current.shockwaves
  running,       \* physicsState.current.running
  stats,         \* the stats state of usePhysicsEngine
  width,         \* dimensions.width
  height,        \* dimensions.height
  rendered,      \* the node copies of the last render (getNodes())
  selectedNode,  \* the selectedNode state
  draggingNode,  \* the draggingNode state: a rendered copy, or Null
  pendingFrames, \* the animation-frame callbacks requested and not yet run
  sinceStep,     \* time of the last frame minus lastTime of the loop (ms)
  pin,           \* history: where the dragged node was last pinned, or Null
  tickCount,     \* history: the number of simulation steps so far
  opCount,       \* history: the number of user events so far
  lastEvent,     \* history: the last handler that ran
  genetic        \* Dashboard: the run of runGeneticOptimization, or Null

vars ==
  << nodes, edges, shockwaves, running, stats, width, height, rendered,
     selectedNode, draggingNode, pendingFrames, sinceStep, pin, tickCount,
     opCount, lastEvent, genetic >>

\* The state of the SupplyChainGraph component.
physics ==
  << nodes, edges, shockwaves, running, stats, width, height, rendered,
     selectedNode, draggingNode, pendingFrames, sinceStep, pin, tickCount,
     opCount, lastEvent >>

Null == [none |-> TRUE]

\* Bounds of the exploration.
MaxTicks == 1

MaxOps == 3

\* Time between two animation frames (ms).
FrameDeltas == {16}

\* The nodes the pointer grabs (indexes into the rendered list).
DragNodes == {0}

Point(x, y) == [x |-> Num(x, 1), y |-> Num(y, 1)]

\* Where the pointer drags a node to: half a pixel from node 5, and onto
\* node 2 (a neighbour of node 0).
PinPoints == {[x |-> Num(4995, 10), y |-> Num(450, 1)], Point(500, 200)}

\* Where the background is clicked.
ClickPoints == {Point(500, 201)}

\* The container sizes a resize reports.
Sizes == {Point(800, 600)}

\* The values Math.random() returns.
StressDraws ==
  { [i \in 1..Len(INITIAL_NODES) |-> 0],
    [i \in 1..Len(INITIAL_NODES) |-> Num(((i * 37) % 100) * 10 + 9, 1000)] }

\* getNodes reading x and y from the nodes argument of the hook (the
\* construction nodes) in place of physicsState.
GetNodesOfProps(ns) ==
  Array([i \in 1..Len(ns) |->
           [id |-> ns[i].id, x |-> INITIAL_NODES[i].x,
            y |-> INITIAL_NODES[i].y, stress |-> ns[i].stress,
            type |-> ns[i].type, label |-> ns[i].label,
            vx |-> ns[i].vx, vy |-> ns[i].vy]])

\* getNodes()
GetNodes(ns) ==
  Array([i \in 1..Len(ns) |->
           [id |-> ns[i].id, x |-> ns[i].x, y |-> ns[i].y,
            stress |-> ns[i].stress, type |-> ns[i].type,
            label |-> ns[i].label, vx |-> ns[i].vx, vy |-> ns[i].vy]])

InitialNodes ==
  Array([i \in 1..Len(INITIAL_NODES) |-> MakeNode(INITIAL_NODES[i])])

Init ==
  /\ nodes = InitialNodes
  /\ edges = INITIAL_EDGES
  /\ shockwaves = << >>
  /\ running = TRUE
  /\ stats = Stats(0, 0, [negLogOf |-> Num(1, 1)])
  /\ width = Num(1000, 1)
  /\ height = Num(700, 1)
  /\ rendered = GetNodes(InitialNodes)
  /\ selectedNode = Null
  /\ draggingNode = Null
  /\ pendingFrames = 1
  /\ sinceStep = 0
  /\ pin = Null
  /\ tickCount = 0
  /\ opCount = 0
  /\ lastEvent = [op |-> "mount"]
  /\ genetic = Null

(***************************************************************************)
(* The animation loop                                                       *)
(***************************************************************************)
\* The state after simulationStep() returned r; setStats renders again.
Stepped(r) ==
  /\ nodes' = r.nodes
  /\ shockwaves' = r.shockwaves
  /\ stats' = r.stats
  /\ rendered' = GetNodes(r.nodes)

\* animate without `if (deltaTime >= 16)`: every frame executes a step.
AnimateEager(deltaTime, maxTicks) ==
  /\ pendingFrames > 0
  /\ IF ~running
     THEN /\ pendingFrames' = pendingFrames - 1
          /\ lastEvent' = [op |-> "stop"]
          /\ UNCHANGED << nodes, shockwaves, stats, rendered, sinceStep,
                          tickCount >>
     ELSE /\ tickCount < maxTicks
          /\ Stepped(SimulationStep(nodes, edges, shockwaves, width, height))
          /\ sinceStep' = 0
          /\ tickCount' = tickCount + 1
          /\ lastEvent' = [op |-> "tick", deltaTime |-> deltaTime]
          /\ UNCHANGED pendingFrames
  /\ UNCHANGED << edges, running, width, height, selectedNode, draggingNode,
                  pin, opCount >>
  /\ UNCHANGED genetic

\* A second simulationStep() on the state r the first one left.
StepAgain(r) == SimulationStep(r.nodes, edges, r.shockwaves, width, height)

\* animate catching up with the measured time: a frame that comes 32 ms or
\* more after the last step executes two steps.
AnimateCatchUp(deltaTime, maxTicks) ==
  /\ pendingFrames > 0
  /\ IF ~running
     THEN /\ pendingFrames' = pendingFrames - 1
          /\ lastEvent' = [op |-> "stop"]
          /\ UNCHANGED << nodes, shockwaves, stats, rendered, sinceStep,
                          tickCount >>
     ELSE IF sinceStep + deltaTime >= 16
     THEN /\ tickCount < maxTicks
          /\ IF sinceStep + deltaTime >= 32
             THEN Stepped(StepAgain(SimulationStep(nodes, edges, shockwaves,
                                                   width, height)))
             ELSE Stepped(SimulationStep(nodes, edges, shockwaves, width,
                                         height))
          /\ sinceStep' = 0
          /\ tickCount' = tickCount + 1
          /\ lastEvent' = [op |-> "tick", deltaTime |-> deltaTime]
          /\ UNCHANGED pendingFrames
     ELSE /\ sinceStep' = sinceStep + deltaTime
          /\ lastEvent' = [op |-> "skip", deltaTime |-> deltaTime]
          /\ UNCHANGED << nodes, shockwaves, stats, rendered, pendingFrames,
                          tickCount >>
  /\ UNCHANGED << edges, running, width, height, selectedNode, draggingNode,
                  pin, opCount >>
  /\ UNCHANGED genetic

\* animate without `if (!physicsState.current.running) return;`.
AnimateAlways(deltaTime, maxTicks) ==
  /\ pendingFrames > 0
  /\ IF sinceStep + deltaTime >= 16
     THEN /\ tickCount < maxTicks
          /\ Stepped(SimulationStep(nodes, edges, shockwaves, width, height))
          /\ sinceStep' = 0
          /\ tickCount' = tickCount + 1
          /\ lastEvent' = [op |-> "tick", deltaTime |-> deltaTime]
          /\ UNCHANGED pendingFrames
     ELSE /\ sinceStep' = sinceStep + deltaTime
          /\ lastEvent' = [op |-> "skip", deltaTime |-> deltaTime]
          /\ UNCHANGED << nodes, shockwaves, stats, rendered, pendingFrames,
                          tickCount >>
  /\ UNCHANGED << edges, running, width, height, selectedNode, draggingNode,
                  pin, opCount >>
  /\ UNCHANGED genetic

\* animate(currentTime), deltaTime after the previous frame.
Animate(deltaTime, maxTicks) ==
  /\ pendingFrames > 0
  /\ IF ~running
     THEN /\ pendingFrames' = pendingFrames - 1
          /\ lastEvent' = [op |-> "stop"]
          /\ UNCHANGED << nodes, shockwaves, stats, rendered, sinceStep,
                          tickCount >>
     ELSE IF sinceStep + deltaTime >= 16
     THEN /\ tickCount < maxTicks
          /\ Stepped(SimulationStep(nodes, edges, shockwaves, width, height))
          /\ sinceStep' = 0
          /\ tickCount' = tickCount + 1
          /\ lastEvent' = [op |-> "tick", deltaTime |-> deltaTime]
          /\ UNCHANGED pendingFrames
     ELSE /\ sinceStep' = sinceStep + deltaTime
          /\ lastEvent' = [op |-> "skip", deltaTime |-> deltaTime]
          /\ UNCHANGED << nodes, shockwaves, stats, rendered, pendingFrames,
                          tickCount >>
  /\ UNCHANGED << edges, running, width, height, selectedNode, draggingNode,
                  pin, opCount >>
  /\ UNCHANGED genetic

Frame == \E deltaTime \in FrameDeltas : Animate(deltaTime, MaxTicks)

(***************************************************************************)
(* The handlers                                                             *)
(***************************************************************************)
\* triggerShockwave assigning a new array in place of the push.
TriggerShockwaveReplace(sws, x, y, force) ==
  << [x |-> x, y |-> y, force |-> force, age |-> 0] >>

\* triggerShockwave(x, y, force): the shockwaves array after the push.
TriggerShockwave(sws, x, y, force) ==
  Append(sws, [x |-> x, y |-> y, force |-> force, age |-> 0])

\* physicsState.nodes.findIndex(n => n.id === id)
RECURSIVE FindIndexFrom(_, _, _)
FindIndexFrom(ns, id, i) ==
  IF i >= Len(ns) THEN -1
  ELSE IF At(ns, i).id = id THEN i
  ELSE FindIndexFrom(ns, id, i + 1)

FindIndex(ns, id) == FindIndexFrom(ns, id, 0)

\* handleNodeMouseDown(e, node)
NodeMouseDown(node) ==
  /\ opCount < MaxOps
  /\ selectedNode' = node
  /\ draggingNode' = node
  /\ rendered' = GetNodes(nodes)
  /\ pin' = Null
  /\ opCount' = opCount + 1
  /\ lastEvent' = [op |-> "mousedown", id |-> node.id]
  /\ UNCHANGED << nodes, edges, shockwaves, running, stats, width, height,
                  pendingFrames, sinceStep, tickCount >>
  /\ UNCHANGED genetic

MouseDown == \E k \in DragNodes : NodeMouseDown(At(rendered, k))

\* The position update moving the dragged node to the end of the array.
PinAtToEnd(ns, nodeIndex, newX, newY) ==
  IF nodeIndex # -1
  THEN SubSeq(ns, 1, nodeIndex) \o SubSeq(ns, nodeIndex + 2, Len(ns))
       \o << [ns[nodeIndex + 1] EXCEPT !.x = newX, !.y = newY,
                                       !.vx = 0, !.vy = 0] >>
  ELSE ns

\* if (nodeIndex !== -1) { nodes[nodeIndex].x = newX; ... vy = 0 }
PinAt(ns, nodeIndex, newX, newY) ==
  IF nodeIndex # -1
  THEN [ns EXCEPT ![nodeIndex + 1].x = newX, ![nodeIndex + 1].y = newY,
                  ![nodeIndex + 1].vx = 0, ![nodeIndex + 1].vy = 0]
  ELSE ns

\* The nodes after the position update of handleMouseMove.
PinNode(ns, id, newX, newY) == PinAt(ns, FindIndex(ns, id), newX, newY)

\* handleMouseMove(e), the pointer taking the node to (newX, newY).
MouseMoveTo(newX, newY) ==
  /\ opCount < MaxOps
  /\ draggingNode # Null
  /\ nodes' = PinNode(nodes, draggingNode.id, newX, newY)
  /\ shockwaves' = TriggerShockwave(shockwaves, newX, newY, Num(500, 1))
  /\ pin' = IF FindIndex(nodes, draggingNode.id) # -1
            THEN [index |-> FindIndex(nodes, draggingNode.id),
                  x |-> newX, y |-> newY]
            ELSE Null
  /\ opCount' = opCount + 1
  /\ lastEvent' = [op |-> "mousemove", x |-> newX, y |-> newY]
  /\ UNCHANGED << edges, running, stats, width, height, rendered,
                  selectedNode, draggingNode, pendingFrames, sinceStep,
                  tickCount >>
  /\ UNCHANGED genetic

MouseMove == \E p \in PinPoints : MouseMoveTo(p.x, p.y)

\* handleMouseUp() (mouse up and mouse leave)
MouseUp ==
  /\ opCount < MaxOps
  /\ draggingNode # Null
  /\ shockwaves' = TriggerShockwave(shockwaves, draggingNode.x,
                                    draggingNode.y, Num(2000, 1))
  /\ draggingNode' = Null
  /\ rendered' = GetNodes(nodes)
  /\ pin' = Null
  /\ opCount' = opCount + 1
  /\ lastEvent' = [op |-> "mouseup", id |-> draggingNode.id]
  /\ UNCHANGED << nodes, edges, running, stats, width, height, selectedNode,
                  pendingFrames, sinceStep, tickCount >>
  /\ UNCHANGED genetic

\* handleBackgroundClick(e) on the container itself, at (x, y) in it.
BackgroundClickAt(x, y) ==
  /\ opCount < MaxOps
  /\ selectedNode' = Null
  /\ shockwaves' = TriggerShockwave(shockwaves, x, y, Num(800, 1))
  /\ rendered' = IF selectedNode # Null THEN GetNodes(nodes) ELSE rendered
  /\ opCount' = opCount + 1
  /\ lastEvent' = [op |-> "click", x |-> x, y |-> y]
  /\ UNCHANGED << nodes, edges, running, stats, width, height, draggingNode,
                  pendingFrames, sinceStep, pin, tickCount >>
  /\ UNCHANGED genetic

BackgroundClick == \E p \in ClickPoints : BackgroundClickAt(p.x, p.y)

\* A Reset Network button that restores the construction stress as well.
ResetNodesWithStress(ns) ==
  Array([i \in 1..Len(ns) |->
           [ns[i] EXCEPT !.x = INITIAL_NODES[i].x, !.y = INITIAL_NODES[i].y,
                         !.vx = 0, !.vy = 0,
                         !.stress = INITIAL_NODES[i].stress,
                         !.mass = MassOf(INITIAL_NODES[i].stress)]])

\* The Reset Network button without node.vx = 0; node.vy = 0.
ResetNodesKeepVelocity(ns) ==
  Array([i \in 1..Len(ns) |->
           [ns[i] EXCEPT !.x = INITIAL_NODES[i].x, !.y = INITIAL_NODES[i].y]])

\* The nodes after the Reset Network button's forEach.
ResetNodes(ns) ==
  Array([i \in 1..Len(ns) |->
           [ns[i] EXCEPT !.x = INITIAL_NODES[i].x, !.y = INITIAL_NODES[i].y,
                         !.vx = 0, !.vy = 0]])

\* The Reset Network button
Reset ==
  /\ opCount < MaxOps
  /\ nodes' = ResetNodes(nodes)
  /\ shockwaves' = << >>
  /\ pin' = Null
  /\ opCount' = opCount + 1
  /\ lastEvent' = [op |-> "reset"]
  /\ UNCHANGED << edges, running, stats, width, height, rendered,
                  selectedNode, draggingNode, pendingFrames, sinceStep,
                  tickCount >>
  /\ UNCHANGED genetic

\* The Randomize Stress button with node.stress = Math.random() * 2.
RandomizeNodeWide(node, r) ==
  [node EXCEPT !.stress = 2 * r, !.mass = MassOf(2 * r)]

\* The Randomize Stress button without node.mass = 1 + node.stress * 0.5.
RandomizeNodeStale(node, r) == [node EXCEPT !.stress = r]

\* One node after the Randomize Stress button, Math.random() returning r.
RandomizeNode(node, r) == [node EXCEPT !.stress = r, !.mass = MassOf(r)]

\* The Randomize Stress button
RandomizeStressWith(draw) ==
  /\ opCount < MaxOps
  /\ nodes' = Array([i \in 1..Len(nodes) |-> RandomizeNode(nodes[i], draw[i])])
  /\ opCount' = opCount + 1
  /\ lastEvent' = [op |-> "randomize"]
  /\ UNCHANGED << edges, shockwaves, running, stats, width, height, rendered,
                  selectedNode, draggingNode, pendingFrames, sinceStep, pin,
                  tickCount >>
  /\ UNCHANGED genetic

RandomizeStress == \E draw \in StressDraws : RandomizeStressWith(draw)

\* The cleanup of the loop effect, return () => cancelAnimationFrame(
\* animationId): animationId is the last request of the loop, pending
\* unless the loop has stopped.
Cancelled(pending) == IF pending > 0 THEN pending - 1 ELSE 0

\* A loop effect without its cleanup: the new loop starts beside the old.
RestartUncancelled(pending) == pending + 1

\* The loop effect run again for a new simulationStep: the cleanup of the
\* old loop, then animationId = requestAnimationFrame(animate).
Restart(pending) == Cancelled(pending) + 1

\* updateDimensions(): the container reports clientWidth x clientHeight.
\* A changed width or height replaces simulationStep, which restarts the loop.
ResizeTo(clientWidth, clientHeight) ==
  /\ opCount < MaxOps
  /\ width' = clientWidth
  /\ height' = clientHeight
  /\ rendered' = GetNodes(nodes)
  /\ IF clientWidth # width \/ clientHeight # height
     THEN pendingFrames' = Restart(pendingFrames) /\ sinceStep' = 0
     ELSE UNCHANGED << pendingFrames, sinceStep >>
  /\ opCount' = opCount + 1
  /\ lastEvent' = [op |-> "resize", clientWidth |-> clientWidth,
                    clientHeight |-> clientHeight]
  /\ UNCHANGED << nodes, edges, shockwaves, running, stats, selectedNode,
                  draggingNode, pin, tickCount >>
  /\ UNCHANGED genetic

Resize == \E size \in Sizes : ResizeTo(size.x, size.y)

Next ==
  \/ Frame
  \/ MouseDown
  \/ MouseMove
  \/ MouseUp
  \/ BackgroundClick
  \/ Reset
  \/ RandomizeStress
  \/ Resize

Spec == Init /\ [][Next]_vars

(***************************************************************************)
(* The long run: shockwaves triggered in the first frames, and the loop     *)
(* running until every one of them has reached the age ceiling.            *)
(***************************************************************************)
\* The number of shockwaves the long run triggers.
MaxShocks == 1

LongTicks == MAX_AGE + MaxTicks + 1

FrameLong == \E deltaTime \in FrameDeltas : Animate(deltaTime, LongTicks)

ClickEarly ==
  /\ tickCount < MaxTicks
  /\ Len(shockwaves) < MaxShocks
  /\ BackgroundClick

NextLong ==
  \/ FrameLong
  \/ ClickEarly

SpecLong == Init /\ [][NextLong]_vars

(***************************************************************************)
(* The handlers called with a node that is not a node of the engine:       *)
(* handleNodeMouseDown takes the node as its argument.                      *)
(***************************************************************************)
ForeignNode ==
  [id |-> 99, x |-> Num(300, 1), y |-> Num(300, 1), stress |-> Num(5, 10),
   type |-> "FACTORY", label |-> "F9", vx |-> 0, vy |-> 0]

MouseDownForeign == NodeMouseDown(ForeignNode)

NextForeign ==
  \/ Next
  \/ MouseDownForeign

SpecForeign == Init /\ [][NextForeign]_vars

(***************************************************************************)
(* Pause and resume.  No handler of the component writes the running flag   *)
(* the loop tests; the operations pause() and resume() flip it, as the      *)
(* specification of the scheduler describes them.                           *)
(***************************************************************************)
Pause ==
  /\ opCount < MaxOps
  /\ running' = FALSE
  /\ opCount' = opCount + 1
  /\ lastEvent' = [op |-> "pause"]
  /\ UNCHANGED << nodes, edges, shockwaves, stats, width, height, rendered,
                  selectedNode, draggingNode, pendingFrames, sinceStep, pin,
                  tickCount >>
  /\ UNCHANGED genetic

Resume ==
  /\ opCount < MaxOps
  /\ running' = TRUE
  /\ opCount' = opCount + 1
  /\ lastEvent' = [op |-> "resume"]
  /\ UNCHANGED << nodes, edges, shockwaves, stats, width, height, rendered,
                  selectedNode, draggingNode, pendingFrames, sinceStep, pin,
                  tickCount >>
  /\ UNCHANGED genetic

NextPause ==
  \/ Frame
  \/ Pause
  \/ Resume
  \/ BackgroundClick
  \/ Resize

SpecPause == Init /\ [][NextPause]_vars

(***************************************************************************)
(* Frames at an irregular rate: faster than the cadence of the loop, at    *)
(* the cadence, and late.                                                   *)
(***************************************************************************)
\* Time between two animation frames (ms).
AnyDeltas == {5, 16, 40}

FrameAny == \E deltaTime \in AnyDeltas : Animate(deltaTime, MaxTicks)

NextFrames ==
  \/ FrameAny
  \/ BackgroundClick
  \/ Resize

SpecFrames == Init /\ [][NextFrames]_vars

(***************************************************************************)
(* A node dragged to the rest length of one of its springs.                 *)
(***************************************************************************)
\* Where the pointer drags node 0 to: 120 from node 2 at (500, 200), its
\* neighbour, straight above it and along a 72-96-120 triangle; and 60 from
\* node 2, where that spring is compressed.
RestPoints == {Point(500, 80), Point(428, 104), Point(500, 140)}

MouseMoveRest == \E p \in RestPoints : MouseMoveTo(p.x, p.y)

NextSpring ==
  \/ Frame
  \/ MouseDown
  \/ MouseMoveRest
  \/ MouseUp
  \/ BackgroundClick
  \/ Reset

SpecSpring == Init /\ [][NextSpring]_vars

(***************************************************************************)
(* A container that collapses: clientWidth or clientHeight is 0 while the  *)
(* container is hidden or has no height.                                   *)
(***************************************************************************)
CollapsedSizes == {Point(0, 600), Point(800, 0), Point(800, 600)}

ResizeCollapsed == \E size \in CollapsedSizes : ResizeTo(size.x, size.y)

NextResize ==
  \/ Frame
  \/ ResizeCollapsed
  \/ BackgroundClick

SpecResize == Init /\ [][NextResize]_vars

(***************************************************************************)
(* A node dragged into the margins of the viewport.                        *)
(***************************************************************************)
\* Where the pointer drags node 0 to: into the top left corner and into
\* the bottom right corner, less than 50 from the edges.
MarginPoints == {Point(20, 30), Point(990, 690)}

MouseMoveMargin == \E p \in MarginPoints : MouseMoveTo(p.x, p.y)

NextMargin ==
  \/ Frame
  \/ MouseDown
  \/ MouseMoveMargin
  \/ BackgroundClick
  \/ Resize

SpecMargin == Init /\ [][NextMargin]_vars

(***************************************************************************)
(* The hook constructed with a node list whose ids are not the positions   *)
(* in the list: the first two nodes of INITIAL_NODES in the other order.   *)
(***************************************************************************)
ReorderedNodes ==
  << INITIAL_NODES[2], INITIAL_NODES[1] >>
    \o SubSeq(INITIAL_NODES, 3, Len(INITIAL_NODES))

InitReordered ==
  /\ nodes = Array([i \in 1..Len(ReorderedNodes) |->
                      MakeNode(ReorderedNodes[i])])
  /\ edges = INITIAL_EDGES
  /\ shockwaves = << >>
  /\ running = TRUE
  /\ stats = Stats(0, 0, [negLogOf |-> Num(1, 1)])
  /\ width = Num(1000, 1)
  /\ height = Num(700, 1)
  /\ rendered = GetNodes(Array([i \in 1..Len(ReorderedNodes) |->
                                  MakeNode(ReorderedNodes[i])]))
  /\ selectedNode = Null
  /\ draggingNode = Null
  /\ pendingFrames = 1
  /\ sinceStep = 0
  /\ pin = Null
  /\ tickCount = 0
  /\ opCount = 0
  /\ lastEvent = [op |-> "mount"]
  /\ genetic = Null

SpecReordered == InitReordered /\ [][NextFrames]_vars

(***************************************************************************)
(* A drag that lasts over several frames.                                  *)
(***************************************************************************)
FrameDrag == \E deltaTime \in FrameDeltas : Animate(deltaTime, MaxTicks + 1)

NextDrag ==
  \/ FrameDrag
  \/ MouseDown
  \/ MouseMoveMargin
  \/ MouseUp

SpecDrag == Init /\ [][NextDrag]_vars

(***************************************************************************)
(* Dashboard: the genetic vendor ordering                                   *)
(***************************************************************************)
\* The vendors of the demo (id, demand, congestionLevel, baseDelay).
INITIAL_VENDORS ==
  << [id |-> 1, demand |-> 95, congestionLevel |-> 45, baseDelay |-> 12],
     [id |-> 2, demand |-> 65, congestionLevel |-> 30, baseDelay |-> 8],
     [id |-> 3, demand |-> 54, congestionLevel |-> 60, baseDelay |-> 15],
     [id |-> 4, demand |-> 96, congestionLevel |-> 75, baseDelay |-> 18],
     [id |-> 5, demand |-> 72, congestionLevel |-> 40, baseDelay |-> 10],
     [id |-> 6, demand |-> 91, congestionLevel |-> 55, baseDelay |-> 14] >>

\* Bounds of the exploration: the vendors handed to the optimisation are the
\* first NumVendors of INITIAL_VENDORS.
NumVendors == 3

PopulationSize == 2

Generations == 2

\* The tournamentSize default of tournamentSelect.
TournamentSize == 5

VendorList == SubSeq(INITIAL_VENDORS, 1, NumVendors)

VendorIds == {VendorList[k].id : k \in 1..Len(VendorList)}

\* null, the fill of a new child.
NullEntry == 0 - 1

\* undefined, the read past the end of an array.
Undefined == 0 - 2

\* array[index], indexes counted from 0.
Element(array, index) ==
  IF index >= 0 /\ index < Len(array) THEN array[index + 1] ELSE Undefined

\* array.includes(value)
Includes(array, value) == \E k \in 1..Len(array) : array[k] = value

\* vendors.find(v => v.id === vendorId): its position, or 0 when there is none.
FindVendor(vendors, vendorId) ==
  IF \E k \in 1..Len(vendors) : vendors[k].id = vendorId
  THEN CHOOSE k \in 1..Len(vendors) :
         /\ vendors[k].id = vendorId
         /\ \A m \in 1..(k - 1) : vendors[m].id # vendorId
  ELSE 0

\* positionDelay * congestionMultiplier, times 100.
PositionDelay(vendor, index) ==
  (vendor.baseDelay + index * 2) * (100 + vendor.congestionLevel)

\* The forEach of calculateFitness from index on: totalDelay (times 100) and
\* demandPriority.
RECURSIVE FitnessFrom(_, _, _)
FitnessFrom(vendorOrder, vendors, index) ==
  IF index >= Len(vendorOrder)
  THEN [totalDelay |-> 0, demandPriority |-> 0]
  ELSE LET rest == FitnessFrom(vendorOrder, vendors, index + 1)
           found == FindVendor(vendors, vendorOrder[index + 1])
       IN  IF found = 0
           THEN rest
           ELSE [totalDelay |->
                   rest.totalDelay + PositionDelay(vendors[found], index),
                 demandPriority |->
                   rest.demandPriority + vendors[found].demand]

\* calculateFitness: fitness = 1 / (totalDelay + 1) + demandPriority * 0.01,
\* kept as the exact fraction num / den.
CalculateFitness(vendorOrder, vendors) ==
  LET sums == FitnessFrom(vendorOrder, vendors, 0)
  IN  [num |-> 100 * 100 + sums.demandPriority * (sums.totalDelay + 100),
       den |-> 100 * (sums.totalDelay + 100)]

\* a / b > c / d for positive b and d, by continued fractions (the products
\* a * d and c * b do not fit the integers of the checker).
RECURSIVE Greater(_, _, _, _)
Greater(a, b, c, d) ==
  IF a \div b # c \div d THEN a \div b > c \div d
  ELSE IF a % b = 0 THEN FALSE
  ELSE IF c % d = 0 THEN TRUE
  ELSE Greater(d, c % d, b, a % b)

\* fitness(individual) > fitness(best)
Fitter(individual, best, vendors) ==
  LET f == CalculateFitness(individual, vendors)
      g == CalculateFitness(best, vendors)
  IN  Greater(f.num, f.den, g.num, g.den)

\* The forEach that keeps the fittest: best is replaced only by a strictly
\* fitter individual.
RECURSIVE BestOf(_, _, _, _)
BestOf(individuals, vendors, best, k) ==
  IF k > Len(individuals)
  THEN best
  ELSE BestOf(individuals, vendors,
              IF Fitter(individuals[k], best, vendors)
              THEN individuals[k] ELSE best,
              k + 1)

\* generatePopulation: each individual is the ids of a shuffle of the vendors.
Shuffles ==
  {s \in [1..NumVendors -> VendorIds] :
     \A a, b \in 1..NumVendors : s[a] = s[b] => a = b}

\* The random indexes of one tournament: the first pick and the four others.
Tournaments ==
  {[k \in 1..TournamentSize |-> IF k = 1 THEN a ELSE b] :
     a, b \in 0..(PopulationSize - 1)}

\* tournamentSelect(population, vendors) with the drawn indexes picks.
TournamentSelect(population, vendors, picks) ==
  LET tournament == [k \in 1..Len(picks) |-> At(population, picks[k])]
  IN  BestOf(tournament, vendors, tournament[1], 1)

\* The child of crossover before the gaps are filled.
Segment(parent1, start, end) ==
  [k \in 1..Len(parent1) |->
     IF k - 1 >= start /\ k - 1 <= end THEN parent1[k] ELSE NullEntry]

\* while (child.includes(parent2[currentIndex])) currentIndex++, skipped.
SkipIncludedNever(child, parent2, currentIndex) == currentIndex

\* while (child.includes(parent2[currentIndex])) currentIndex++; a loop that
\* would not end (child holds undefined) is cut at the end of parent2.
RECURSIVE SkipIncluded(_, _, _)
SkipIncluded(child, parent2, currentIndex) ==
  IF /\ currentIndex < Len(parent2)
     /\ Includes(child, Element(parent2, currentIndex))
  THEN SkipIncluded(child, parent2, currentIndex + 1)
  ELSE currentIndex

\* The second loop of crossover from i on; Filled is its body once the
\* while loop stopped at currentIndex.
RECURSIVE Fill(_, _, _, _, _, _)
RECURSIVE Filled(_, _, _, _, _, _)
Filled(child, parent2, start, end, i, currentIndex) ==
  Fill([child EXCEPT ![i + 1] = Element(parent2, currentIndex)],
       parent2, start, end, i + 1, currentIndex + 1)

Fill(child, parent2, start, end, i, currentIndex) ==
  IF i >= Len(child)
  THEN child
  ELSE IF i >= start /\ i <= end
  THEN Fill(child, parent2, start, end, i + 1, currentIndex)
  ELSE Filled(child, parent2, start, end, i,
              SkipIncluded(child, parent2, currentIndex))

\* crossover(parent1, parent2) with the drawn segment start..end.
Crossover(parent1, parent2, start, end) ==
  Fill(Segment(parent1, start, end), parent2, start, end, 0, 0)

\* The segments crossover can draw for an individual of length n.
Segments(n) ==
  {se \in (0..(n - 1)) \X (0..(n - 1)) : se[1] <= se[2]}

\* The swap of mutate.
Swap(individual, i, j) ==
  [individual EXCEPT ![i + 1] = individual[j + 1],
                     ![j + 1] = individual[i + 1]]

\* The outcomes of mutate(individual): untouched, or one swap.
Mutate(individual) ==
  {individual} \cup
  {Swap(individual, i, j) : i, j \in 0..(Len(individual) - 1)}

\* The state of runGeneticOptimization at the head of its while loop.
Generation(population, bestSolution, gen, bred) ==
  [population |-> population,
   newPopulation |-> << bestSolution >>,
   bestSolution |-> bestSolution,
   gen |-> gen,
   bred |-> bred]

\* runGeneticOptimization(vendors, generations, populationSize) is called.
RunGeneticOptimization ==
  /\ IF genetic = Null THEN TRUE ELSE genetic.gen >= Generations
  /\ \E population \in [1..PopulationSize -> Shuffles] :
       genetic' = Generation(population, population[1], 0, Null)
  /\ UNCHANGED physics

\* The individuals tournamentSelect(population, vendors) can return.
Selected(population, vendors) ==
  {TournamentSelect(population, vendors, picks) : picks \in Tournaments}

\* One turn of the while loop: two tournaments, crossover, mutate, push.
Breed ==
  /\ genetic # Null
  /\ genetic.gen < Generations
  /\ Len(genetic.newPopulation) < PopulationSize
  /\ \E parent1, parent2 \in Selected(genetic.population, VendorList) :
       \E se \in Segments(NumVendors) :
         \E child \in Mutate(Crossover(parent1, parent2, se[1], se[2])) :
           genetic' =
             [genetic EXCEPT
                !.newPopulation = Append(genetic.newPopulation, child),
                !.bred = [parent1 |-> parent1, parent2 |-> parent2,
                          child |-> child]]
  /\ UNCHANGED physics

\* The end of one generation: the new population replaces the old one and
\* the best solution is looked up in it.
EndGeneration ==
  /\ genetic # Null
  /\ genetic.gen < Generations
  /\ Len(genetic.newPopulation) >= PopulationSize
  /\ genetic' =
       [Generation(genetic.newPopulation,
                   BestOf(genetic.newPopulation, VendorList,
                          genetic.bestSolution, 1),
                   genetic.gen + 1, genetic.bred)
        EXCEPT !.newPopulation =
                 IF genetic.gen + 1 < Generations
                 THEN << BestOf(genetic.newPopulation, VendorList,
                                genetic.bestSolution, 1) >>
                 ELSE genetic.newPopulation]
  /\ UNCHANGED physics

NextGenetic ==
  \/ RunGeneticOptimization
  \/ Breed
  \/ EndGeneration

SpecGenetic == Init /\ [][NextGenetic]_vars

(***************************************************************************)
(* Properties                                                               *)
(***************************************************************************)
\* A step of the loop that ran simulationStep.
TickStep == lastEvent'.op = "tick" /\ tickCount' = tickCount + 1

\* A step of the handler named op.
EventStep(op) == lastEvent'.op = op /\ opCount' = opCount + 1

Last(seq) == seq[Len(seq)]

\* The accelerations of a step before its shockwave forces are added.
WithoutShockwaves ==
  ApplyBoundary(ApplyHooke(ApplyCoulomb(ResetAccelerations(nodes)),
                           edges).nodes, width, height)

\* The sum over the shockwaves of what each one alone adds to node.
EachAlone(node) ==
  SumForces(Array([k \in 1..Len(shockwaves) |->
                     ApplyShockwaves(node, << shockwaves[k] >>)]))

\* What a shockwave adds to node at its full force (decay factor 1).
FullForce(node, sw) ==
  Along(Sub(node.x, sw.x), Sub(node.y, sw.y),
        Add(Hypot(Sub(node.x, sw.x), Sub(node.y, sw.y)), Num(1, 1)),
        Div(Div(sw.force,
                Add(Hypot(Sub(node.x, sw.x), Sub(node.y, sw.y)), Num(1, 1))),
            Add(Hypot(Sub(node.x, sw.x), Sub(node.y, sw.y)), Num(1, 1))))

AllFullForce(node) ==
  SumForces(Array([k \in 1..Len(shockwaves) |->
                     FullForce(node, shockwaves[k])]))

\* The accelerations base plus the forces f(node) are those after the step.
AccelerationsAre(base, f(_)) ==
  \A i \in 1..Len(nodes) :
    /\ nodes'[i].ax = Add(base[i].ax, f(nodes[i]).fx)
    /\ nodes'[i].ay = Add(base[i].ay, f(nodes[i]).fy)

\* force * 0.95^age < 0.1, at the resolution PowScale.
DecayedBelowThreshold(sw) ==
  PowDecayHi(sw.age) < (PowScale \div 10) \div (sw.force \div Unit)

\* C1: between ticks, whatever triggers, pins, releases, resets and stress
\* randomizations came before, every node's speed sqrt(vx^2 + vy^2) is a
\* number that is at most MAX_VELOCITY.
C1_SpeedCapped ==
  \A i \in 1..Len(nodes) :
    /\ Finite(Hypot(nodes[i].vx, nodes[i].vy))
    /\ Hypot(nodes[i].vx, nodes[i].vy) <= MAX_VELOCITY

\* C2: in every reachable state every node's mass is 1 + stress * 0.5.
C2_MassFromStress ==
  \A i \in 1..Len(nodes) :
    nodes[i].mass = Unit + (nodes[i].stress * 5) \div 10

\* C2 witness: a tick has run and the stress of a node, and its mass with
\* it, is no longer that of construction.
C2_Randomized ==
  /\ tickCount >= 1
  /\ \E i \in 1..Len(nodes) :
       /\ nodes[i].stress # INITIAL_NODES[i].stress
       /\ nodes[i].mass # InitialNodes[i].mass

\* C3: no shockwave whose decayed magnitude force * 0.95^age is under the
\* threshold 0.1 is in the active set between ticks: it is removed by the
\* tick that brings it there, well before the age ceiling.
C3_RemovedOnceDecayed ==
  \A k \in 1..Len(shockwaves) : ~DecayedBelowThreshold(shockwaves[k])

\* C4: no active shockwave has age >= 300 between ticks; a tick removes a
\* shockwave or ages it by exactly one, and removes it when that brings it
\* to age 300, whatever its force; so every shockwave is gone at the latest
\* 300 ticks after its creation, and none is left when the loop has run
\* that long after the last trigger.
C4_AgeCeiling ==
  [][/\ \A j \in 1..Len(shockwaves') : shockwaves'[j].age < MAX_AGE
     /\ TickStep =>
          /\ Len(shockwaves') <= Len(shockwaves)
          /\ \A k \in 1..Len(shockwaves) :
               \/ shockwaves[k].age + 1 >= MAX_AGE
               \/ \E j \in 1..Len(shockwaves') :
                    shockwaves'[j] = Aged(shockwaves[k])
          /\ \A j \in 1..Len(shockwaves') :
               \E k \in 1..Len(shockwaves) :
                 shockwaves'[j] = Aged(shockwaves[k])
     /\ tickCount' >= MAX_AGE + MaxTicks - 1 => shockwaves' = << >>]_vars

\* C4 witness: a shockwave was triggered, the loop has run to the age
\* ceiling and the active set is empty.
C4_Expired ==
  /\ opCount >= 1
  /\ tickCount >= MAX_AGE
  /\ shockwaves = << >>

\* C5: right after reset every node is at its construction position with
\* velocity (0, 0), and the active shockwave set is empty.
C5_ResetRestores ==
  lastEvent.op = "reset" =>
    /\ \A i \in 1..Len(nodes) :
         /\ nodes[i].x = INITIAL_NODES[i].x
         /\ nodes[i].y = INITIAL_NODES[i].y
         /\ nodes[i].vx = 0
         /\ nodes[i].vy = 0
    /\ shockwaves = << >>

\* C5 witness: a reset after a tick has moved the nodes and another handler
\* has run.
C5_ResetAfterMotion ==
  /\ lastEvent.op = "reset"
  /\ tickCount >= 1
  /\ opCount >= 2
  /\ \E i \in 1..Len(nodes) : nodes[i].ax # 0

\* C6: while a node is pinned (dragged to (x, y) and not yet released), it
\* is at exactly (x, y) with velocity (0, 0), ticks included.
C6_PinnedStays ==
  pin # Null =>
    /\ nodes[pin.index + 1].x = pin.x
    /\ nodes[pin.index + 1].y = pin.y
    /\ nodes[pin.index + 1].vx = 0
    /\ nodes[pin.index + 1].vy = 0

\* C7: the release of a pinned node appends exactly one shockwave, whose
\* origin is the position the node has at the release, and changes no node.
C7_ReleaseAtNode ==
  [][(EventStep("mouseup") /\ pin # Null) =>
       /\ nodes' = nodes
       /\ Len(shockwaves') = Len(shockwaves) + 1
       /\ SubSeq(shockwaves', 1, Len(shockwaves)) = shockwaves
       /\ Last(shockwaves').x = nodes[pin.index + 1].x
       /\ Last(shockwaves').y = nodes[pin.index + 1].y]_vars

\* C8: a trigger keeps the shockwaves triggered before it, so that two
\* triggered between the same two ticks are both active in the next tick,
\* and the acceleration a tick adds to a node for the active shockwaves is
\* the sum of what each shockwave alone adds.
C8_Superposition ==
  [][/\ (EventStep("click") \/ EventStep("mousemove") \/ EventStep("mouseup"))
          => /\ Len(shockwaves') = Len(shockwaves) + 1
             /\ SubSeq(shockwaves', 1, Len(shockwaves)) = shockwaves
     /\ TickStep => AccelerationsAre(WithoutShockwaves, EachAlone)]_vars

\* C8 witness: a tick has run with two shockwaves triggered since the tick
\* before it, and both are active after it.
C8_TwoTogether ==
  /\ lastEvent.op = "tick"
  /\ Len(shockwaves) = 2
  /\ shockwaves[1].age = 1
  /\ shockwaves[2].age = 1
  /\ shockwaves[1] # shockwaves[2]

\* C9: triggerShockwave appends one shockwave with the origin and force it
\* is given and age 0, and changes no other shockwave and no node; in the
\* next tick the new shockwave acts at its full force (decay factor 1), and
\* that tick leaves it with age 1.
C9_AppendOnly ==
  [][/\ EventStep("click") =>
          /\ shockwaves' = Append(shockwaves,
                                  [x |-> lastEvent'.x, y |-> lastEvent'.y,
                                   force |-> Num(800, 1), age |-> 0])
          /\ nodes' = nodes
     /\ EventStep("mousemove") =>
          shockwaves' = Append(shockwaves,
                               [x |-> lastEvent'.x, y |-> lastEvent'.y,
                                force |-> Num(500, 1), age |-> 0])
     /\ EventStep("mouseup") =>
          /\ Len(shockwaves') = Len(shockwaves) + 1
          /\ SubSeq(shockwaves', 1, Len(shockwaves)) = shockwaves
          /\ Last(shockwaves').force = Num(2000, 1)
          /\ Last(shockwaves').age = 0
          /\ nodes' = nodes
     /\ (TickStep /\ \A k \in 1..Len(shockwaves) : shockwaves[k].age = 0) =>
          /\ AccelerationsAre(WithoutShockwaves, AllFullForce)
          /\ shockwaves' = [k \in 1..Len(shockwaves) |->
                              [shockwaves[k] EXCEPT !.age = 1]]]_vars

\* C9 witness: a shockwave was triggered onto an empty set and the tick
\* after it has run.
C9_FirstTick ==
  /\ lastEvent.op = "tick"
  /\ Len(shockwaves) = 1
  /\ shockwaves[1].age = 1

ZeroLength(edge) ==
  /\ Finite(At(nodes, edge.source).x)
  /\ Finite(At(nodes, edge.source).y)
  /\ At(nodes, edge.source).x = At(nodes, edge.target).x
  /\ At(nodes, edge.source).y = At(nodes, edge.target).y

\* x, y, vx and vy of node are numbers.
FiniteNode(node) ==
  /\ Finite(node.x)
  /\ Finite(node.y)
  /\ Finite(node.vx)
  /\ Finite(node.vy)

\* C11: in a tick that starts with the two endpoints of an edge at exactly
\* the same position, the spring of that edge contributes no force, and
\* the tick leaves both endpoints with finite position and velocity.
C11_ZeroDistanceGuarded ==
  [][TickStep =>
       \A k \in 1..Len(edges) :
         ZeroLength(edges[k]) =>
           /\ CalculateHookeAttraction(edges[k], nodes).fx = 0
           /\ CalculateHookeAttraction(edges[k], nodes).fy = 0
           /\ FiniteNode(At(nodes', edges[k].source))
           /\ FiniteNode(At(nodes', edges[k].target))]_vars

\* C12: between ticks the position and the velocity of every node are
\* finite, whatever finite coordinates nodes were pinned to and whatever
\* shockwaves were triggered: no non-finite value is kept or propagated.
C12_AllFinite == \A i \in 1..Len(nodes) : FiniteNode(nodes[i])

\* C13: while the running flag is false, a step that is no explicit
\* operation (a frame callback) executes no simulation step: it changes no
\* node and no shockwave.
C13_PausedNoStep ==
  [][(~running /\ opCount' = opCount) =>
       /\ nodes' = nodes
       /\ shockwaves' = shockwaves
       /\ tickCount' = tickCount]_vars

\* C13 witness: a frame callback has run while the simulation was paused
\* with a shockwave active.
C13_FrameWhilePaused ==
  /\ ~running
  /\ lastEvent.op = "stop"
  /\ shockwaves # << >>

\* C14: whenever the running flag is true (in particular after a pause
\* followed by a resume) a frame callback of the loop is requested, so that
\* the frames the host delivers execute simulation steps again.
C14_ResumeRestarts == running => pendingFrames > 0

\* C15: a frame callback executes at most one simulation step, however
\* late it comes, and executes one only if at least 16 ms have passed since
\* the callback that executed the step before; a frame that comes sooner
\* executes none.
C15_OneStepPerFrame ==
  [][opCount' = opCount =>
       /\ tickCount' <= tickCount + 1
       /\ TickStep =>
            /\ sinceStep + lastEvent'.deltaTime >= 16
            /\ \A j \in 1..Len(shockwaves') :
                 \E k \in 1..Len(shockwaves) :
                   shockwaves'[j] = Aged(shockwaves[k])
       /\ lastEvent'.op = "skip" =>
            /\ sinceStep + lastEvent'.deltaTime < 16
            /\ sinceStep' = sinceStep + lastEvent'.deltaTime
            /\ tickCount' = tickCount
            /\ nodes' = nodes
            /\ shockwaves' = shockwaves]_vars

\* C15 witness: a step executed by a frame that came 5 ms after a skipped
\* frame, with a shockwave active.
C15_StepAfterSkips ==
  /\ lastEvent.op = "tick"
  /\ lastEvent.deltaTime = 5
  /\ shockwaves # << >>

StressInRange(ns) ==
  \A i \in 1..Len(ns) :
    /\ 0 <= ns[i].stress
    /\ ns[i].stress <= Num(1, 1)
    /\ ns[i].mass >= Num(1, 1)

\* C17: in every reachable state every node's stress is in [0, 1] and its
\* mass is >= 1; randomizeStress changes no node's position or velocity,
\* no edge and no shockwave.
C17_StressRange ==
  /\ StressInRange(nodes)
  /\ [][/\ StressInRange(nodes')
        /\ EventStep("randomize") =>
             /\ \A i \in 1..Len(nodes) :
                  /\ nodes'[i].x = nodes[i].x
                  /\ nodes'[i].y = nodes[i].y
                  /\ nodes'[i].vx = nodes[i].vx
                  /\ nodes'[i].vy = nodes[i].vy
             /\ Len(nodes') = Len(nodes)
             /\ edges' = edges
             /\ shockwaves' = shockwaves]_vars

\* C17 witness: stresses have just been randomized, one of them above 0.9,
\* after a tick has moved the nodes and with a shockwave active.
C17_RandomizedInMotion ==
  /\ lastEvent.op = "randomize"
  /\ tickCount >= 1
  /\ shockwaves # << >>
  /\ \E i \in 1..Len(nodes) : nodes[i].stress > Num(9, 10)

\* C18: in every reachable state the edge list is the construction edge
\* list (same edges, same endpoints, same order) and the nodes have the
\* construction ids in the construction order.
C18_TopologyFixed ==
  /\ edges = INITIAL_EDGES
  /\ Len(nodes) = Len(INITIAL_NODES)
  /\ \A i \in 1..Len(nodes) : nodes[i].id = INITIAL_NODES[i].id

\* C18 witness: a node was dragged and released and a tick has run.
C18_AfterDragAndTick ==
  /\ lastEvent.op = "mouseup"
  /\ tickCount >= 1
  /\ nodes[1].x # INITIAL_NODES[1].x

\* The endpoints of edge are exactly SPRING_LENGTH apart (whole pixels).
AtRestLength(source, target) ==
  /\ FiniteNode(source) /\ FiniteNode(target)
  /\ (target.x - source.x) % Unit = 0
  /\ (target.y - source.y) % Unit = 0
  /\ ((target.x - source.x) \div Unit) * ((target.x - source.x) \div Unit)
       + ((target.y - source.y) \div Unit) * ((target.y - source.y) \div Unit)
     = (SPRING_LENGTH \div Unit) * (SPRING_LENGTH \div Unit)

\* The edge list without its k-th edge.
EdgesWithout(k) == SubSeq(edges, 1, k - 1) \o SubSeq(edges, k + 1, Len(edges))

\* node with no force acting on it and no velocity.
Still(node) == [node EXCEPT !.ax = 0, !.ay = 0, !.vx = 0, !.vy = 0]

\* The step leaves the endpoints of edge with the accelerations of a, and
\* the tension of a.
SameAsWithout(edge, a) ==
  /\ At(nodes', edge.source).ax = At(a.nodes, edge.source).ax
  /\ At(nodes', edge.source).ay = At(a.nodes, edge.source).ay
  /\ At(nodes', edge.target).ax = At(a.nodes, edge.target).ax
  /\ At(nodes', edge.target).ay = At(a.nodes, edge.target).ay
  /\ stats'.tension = a.totalTension

\* C19: for an edge whose endpoints are exactly SPRING_LENGTH apart at the
\* start of a tick, the spring force and the tension of the edge are zero,
\* the tick gives both endpoints the accelerations and the network the
\* tension that it would without the edge, and an endpoint with no velocity
\* and no force acting on it does not move.
C19_RestLengthNoForce ==
  [][TickStep =>
       \A k \in 1..Len(edges) :
         AtRestLength(At(nodes, edges[k].source),
                      At(nodes, edges[k].target)) =>
           /\ CalculateHookeAttraction(edges[k], nodes)
                = [fx |-> 0, fy |-> 0, tension |-> 0]
           /\ SameAsWithout(edges[k],
                            Accelerate(nodes, EdgesWithout(k), shockwaves,
                                       width, height))
           /\ Integrate(Still(At(nodes, edges[k].source)))
                = Still(At(nodes, edges[k].source))
           /\ Integrate(Still(At(nodes, edges[k].target)))
                = Still(At(nodes, edges[k].target))]_vars

\* C19 witness: a tick has run from a state in which node 0 was pinned 120
\* from its neighbour node 2, along a 72-96-120 triangle.
C19_TickAtRestLength ==
  /\ lastEvent.op = "tick"
  /\ pin # Null
  /\ pin.index = 0
  /\ pin.x = Num(428, 1)
  /\ pin.y = Num(104, 1)

\* The records of snapshot are copies of the nodes ns, field by field, in
\* the construction order.
SnapshotOf(snapshot, ns) ==
  /\ Len(snapshot) = Len(ns)
  /\ \A i \in 1..Len(ns) :
       /\ DOMAIN snapshot[i]
            = {"id", "x", "y", "stress", "type", "label", "vx", "vy"}
       /\ snapshot[i].id = INITIAL_NODES[i].id
       /\ snapshot[i].id = ns[i].id
       /\ snapshot[i].x = ns[i].x
       /\ snapshot[i].y = ns[i].y
       /\ snapshot[i].stress = ns[i].stress
       /\ snapshot[i].type = ns[i].type
       /\ snapshot[i].label = ns[i].label
       /\ snapshot[i].vx = ns[i].vx
       /\ snapshot[i].vy = ns[i].vy

C22_InvalidSizeRejected ==
  /\ width > 0 /\ height > 0
  /\ [][EventStep("resize")
          /\ (lastEvent'.clientWidth <= 0 \/ lastEvent'.clientHeight <= 0)
        => width' = width /\ height' = height]_vars

\* The four contributions to the node at position i, each computed from the
\* nodes and shockwaves as they are when the tick starts.
TickForce(i) ==
  SumForces(<< CalculateCoulombRepulsion(i - 1, nodes),
               HookeOn(i - 1, edges,
                       Array([k \in 1..Len(edges) |->
                                CalculateHookeAttraction(edges[k], nodes)])),
               CalculateBoundaryForces(nodes[i], width, height),
               ApplyShockwaves(nodes[i], shockwaves) >>)

\* The node at position i with the acceleration f in place of its own.
Accelerated(i, f) == [nodes[i] EXCEPT !.ax = f.fx, !.ay = f.fy]

\* C23: in a tick the acceleration of every node becomes the sum of its
\* repulsion, spring, boundary and shockwave contributions and nothing else,
\* each computed from the positions at the start of the tick and the
\* shockwaves at their age at the start of the tick; the node is then
\* integrated from its own start-of-tick velocity and position with that
\* acceleration, whatever acceleration the previous tick left; and the
\* shockwaves are aged and pruned once, after they were applied.
C23_TickOrder ==
  [][TickStep =>
       /\ Len(nodes') = Len(nodes)
       /\ \A i \in 1..Len(nodes) :
            nodes'[i] = Integrate(Accelerated(i, TickForce(i)))
       /\ shockwaves' = UpdateShockwaves(shockwaves)]_vars

\* C23 witness: a later tick has run on nodes that carried an acceleration
\* from the tick before, with a shockwave applied and aged.
C23_SecondTick ==
  /\ lastEvent.op = "tick"
  /\ tickCount >= 2
  /\ shockwaves # << >>
  /\ shockwaves[1].age >= 1
  /\ \A i \in 1..Len(nodes) : Finite(nodes[i].ax) /\ nodes[i].ax # 0

\* The component v2 has the sign of v1, speed being the length v1 was
\* rescaled from; a component under a thousandth of speed is rescaled to 0
\* at the resolution of the model.
SignKept(v1, v2, speed) ==
  \/ Sgn(v2) = Sgn(v1)
  \/ v2 = 0 /\ Finite(v1) /\ Finite(speed) /\ Abs(v1) < speed \div Unit + 1

\* The node after went from before by the velocity (v1x, v1y) of length
\* speed, rescaled to MAX_VELOCITY when longer, and one position update.
ClampedThenMoved(before, after, v1x, v1y, speed) ==
  /\ IF Gt(speed, MAX_VELOCITY)
     THEN /\ after.vx = Mul(Div(v1x, speed), MAX_VELOCITY)
          /\ after.vy = Mul(Div(v1y, speed), MAX_VELOCITY)
          /\ Hypot(after.vx, after.vy) <= MAX_VELOCITY
     ELSE after.vx = v1x /\ after.vy = v1y
  /\ SignKept(v1x, after.vx, speed)
  /\ SignKept(v1y, after.vy, speed)
  /\ after.x = Add(before.x, Mul(after.vx, TIME_STEP))
  /\ after.y = Add(before.y, Mul(after.vy, TIME_STEP))

DampedThenClamped(before, after, v1x, v1y) ==
  ClampedThenMoved(before, after, v1x, v1y, Hypot(v1x, v1y))

\* C24: in a tick, with a the acceleration of the tick, every node gets
\* v1 = (v + a * TIME_STEP) * DAMPING, then v2 = v1 rescaled to length
\* MAX_VELOCITY if v1 is longer than MAX_VELOCITY and v1 otherwise, then
\* position + v2 * TIME_STEP; the rescaling keeps the sign of each
\* component.
C24_DampClampMove ==
  [][TickStep =>
       \A i \in 1..Len(nodes) :
         DampedThenClamped(
           nodes[i], nodes'[i],
           Mul(Add(nodes[i].vx, Mul(nodes'[i].ax, TIME_STEP)), DAMPING),
           Mul(Add(nodes[i].vy, Mul(nodes'[i].ay, TIME_STEP)), DAMPING))]_vars

\* C24 witness: the first tick pushed a node, at rest until then, beyond
\* MAX_VELOCITY and its velocity is the rescaled one.
C24_Clamped ==
  /\ lastEvent.op = "tick"
  /\ tickCount = 1
  /\ \E i \in 1..Len(nodes) :
       /\ Finite(nodes[i].ax) /\ Finite(nodes[i].ay)
       /\ Gt(Hypot(Mul(Mul(nodes[i].ax, TIME_STEP), DAMPING),
                   Mul(Mul(nodes[i].ay, TIME_STEP), DAMPING)),
             MAX_VELOCITY)
       /\ nodes[i].vx # Mul(Mul(nodes[i].ax, TIME_STEP), DAMPING)
       /\ nodes[i].vx # 0
       /\ nodes[i].vy # 0

\* a and b are equal up to the rounding of the model: five thousandths
\* plus a hundredth of b.
Near(a, b) ==
  /\ Finite(a)
  /\ Finite(b)
  /\ Abs(a - b) <= 5 + Abs(b) \div 100

\* The force f points along (dx, dy) and its length is magnitude.
AwayWith(f, dx, dy, magnitude) ==
  /\ Sgn(f.fx) = Sgn(dx) \/ f.fx = 0
  /\ Sgn(f.fy) = Sgn(dy) \/ f.fy = 0
  /\ Near(Hypot(f.fx, f.fy), magnitude)

\* What node gets from other is directed away from other, with magnitude
\* COULOMB_CONSTANT * (1 + stress * STRESS_THRESHOLD) / (d + 1)^2, d being
\* their distance.
RepelledBy(node, other, d) ==
  AwayWith(CoulombTerm(node, other),
           Sub(node.x, other.x), Sub(node.y, other.y),
           CoulombForce(node.stress, Add(d, Num(1, 1))))

\* C25: for every ordered pair of distinct nodes at different places, at
\* distance d, the repulsion added to the first is directed away from the
\* second and has magnitude
\* COULOMB_CONSTANT * (1 + stress * STRESS_THRESHOLD) / (d + 1)^2.
C25_RepulsionMagnitude ==
  \A i, j \in 1..Len(nodes) :
    (/\ i # j
     /\ Finite(nodes[i].x) /\ Finite(nodes[i].y)
     /\ Finite(nodes[j].x) /\ Finite(nodes[j].y)
     /\ nodes[i].x # nodes[j].x \/ nodes[i].y # nodes[j].y)
    => RepelledBy(nodes[i], nodes[j],
                  Hypot(Sub(nodes[i].x, nodes[j].x),
                        Sub(nodes[i].y, nodes[j].y)))

\* The length of the force f.
Magnitude(f) == Hypot(f.fx, f.fy)

\* The node other with its stress raised to 1, the top of the range.
Stressed(other) == [other EXCEPT !.stress = Num(1, 1)]

\* C26: higher-stress nodes push harder: with both nodes where they are,
\* raising only the stress of the pushing node strictly increases the
\* magnitude of the repulsion added to the pushed node.
C26_PusherStressScales ==
  \A i, j \in 1..Len(nodes) :
    (/\ i # j
     /\ Finite(nodes[i].x) /\ Finite(nodes[i].y)
     /\ Finite(nodes[j].x) /\ Finite(nodes[j].y)
     /\ nodes[i].x # nodes[j].x \/ nodes[i].y # nodes[j].y
     /\ nodes[j].stress < Num(1, 1))
    => Magnitude(CoulombTerm(nodes[i], Stressed(nodes[j])))
         > Magnitude(CoulombTerm(nodes[i], nodes[j]))

\* The force (fx, fy) points along (dx, dy), or is below the resolution of
\* the model on an axis.
Along2(fx, fy, dx, dy) ==
  /\ Finite(fx) /\ Finite(fy)
  /\ Sgn(fx) = Sgn(dx) \/ fx = 0
  /\ Sgn(fy) = Sgn(dy) \/ fy = 0

\* a holds the accelerations that the one edge source -> target adds to the
\* nodes: opposite on its two ends and nothing elsewhere; (dx, dy) leads
\* from the source to the target and displacement is dist - SPRING_LENGTH.
SpringPair(a, source, target, dx, dy, displacement) ==
  /\ Along2(a[source].ax, a[source].ay,
            Sgn(displacement) * dx, Sgn(displacement) * dy)
  /\ a[target].ax = 0 - a[source].ax
  /\ a[target].ay = 0 - a[source].ay
  /\ Add(a[source].ax, a[target].ax) = 0
  /\ Add(a[source].ay, a[target].ay) = 0
  /\ Abs(displacement) >= Unit => a[source].ax # 0 \/ a[source].ay # 0
  /\ \A i \in 1..Len(a) : i \notin {source, target} => a[i].ax = 0 /\ a[i].ay = 0

\* The edge as simulationStep applies it to nodes that have no
\* acceleration yet.
SpringOf(edge, source, target) ==
  SpringPair(ApplyHooke(ResetAccelerations(nodes), << edge >>).nodes,
             edge.source + 1, edge.target + 1,
             Sub(target.x, source.x), Sub(target.y, source.y),
             Sub(Hypot(Sub(target.x, source.x), Sub(target.y, source.y)),
                 SPRING_LENGTH))

Apart(a, b) ==
  /\ Finite(a.x) /\ Finite(a.y) /\ Finite(b.x) /\ Finite(b.y)
  /\ a.x # b.x \/ a.y # b.y

\* C27: for every edge of non-zero length, what the step adds to the
\* acceleration of the source is the exact negation of what it adds to that
\* of the target; when the ends are further apart than SPRING_LENGTH each is
\* pulled toward the other, when they are closer each is pushed away.
C27_SpringEqualOpposite ==
  \A k \in 1..Len(edges) :
    Apart(At(nodes, edges[k].source), At(nodes, edges[k].target))
    => SpringOf(edges[k], At(nodes, edges[k].source),
                At(nodes, edges[k].target))

\* C27 witness: a tick has run while the spring of edge 0 -> 2 was
\* compressed and that of edge 0 -> 3 stretched, and both are still so.
C27_CompressedAndStretched ==
  /\ lastEvent.op = "tick"
  /\ Apart(nodes[1], nodes[3])
  /\ Hypot(Sub(nodes[3].x, nodes[1].x), Sub(nodes[3].y, nodes[1].y))
       < SPRING_LENGTH - Unit
  /\ Apart(nodes[1], nodes[4])
  /\ Hypot(Sub(nodes[4].x, nodes[1].x), Sub(nodes[4].y, nodes[1].y))
       > SPRING_LENGTH + Unit
  /\ nodes[1].ax # 0
  /\ nodes[1].ay # 0

\* The restoring force on one axis as a function of the coordinate v and the
\* viewport extent size alone: linear in the margins of 50, zero between.
Restoring(v, size) ==
  IF v < Num(50, 1) THEN Mul(Num(50, 1) - v, Num(1, 10))
  ELSE IF v > size - Num(50, 1) THEN Mul(size - Num(50, 1) - v, Num(1, 10))
  ELSE 0

\* f points to the interior on the axis of v; a coordinate less than a
\* hundredth into a margin gives a force under the resolution of the model.
Inward(f, v, size) ==
  /\ v < Num(50, 1) => f >= 0
  /\ v <= Num(50, 1) - Num(1, 100) => f > 0
  /\ v > size - Num(50, 1) => f <= 0
  /\ v >= size - Num(50, 1) + Num(1, 100) => f < 0
  /\ (v >= Num(50, 1) /\ v <= size - Num(50, 1)) => f = 0

\* C28: with a viewport at least 100 wide and high, the boundary force on x
\* depends only on the node's x and the width: 0.1 * (50 - x) > 0 when
\* x < 50, 0.1 * (width - 50 - x) < 0 when x > width - 50, zero between; the
\* force on y is the same function of y and the height.
C28_BoundaryLinear ==
  (width >= Num(100, 1) /\ height >= Num(100, 1)) =>
    \A i \in 1..Len(nodes) :
      (Finite(nodes[i].x) /\ Finite(nodes[i].y)) =>
        /\ CalculateBoundaryForces(nodes[i], width, height).fx
             = Restoring(nodes[i].x, width)
        /\ CalculateBoundaryForces(nodes[i], width, height).fy
             = Restoring(nodes[i].y, height)
        /\ Inward(Restoring(nodes[i].x, width), nodes[i].x, width)
        /\ Inward(Restoring(nodes[i].y, height), nodes[i].y, height)
        /\ \A j \in 1..Len(nodes) :
             Finite(nodes[j].y) =>
               CalculateBoundaryForces([nodes[i] EXCEPT !.y = nodes[j].y],
                                       width, width).fx
                 = CalculateBoundaryForces(nodes[i], width, height).fx
        /\ \A j \in 1..Len(nodes) :
             Finite(nodes[j].x) =>
               CalculateBoundaryForces([nodes[i] EXCEPT !.x = nodes[j].x],
                                       height, height).fy
                 = CalculateBoundaryForces(nodes[i], width, height).fy

\* C28 witness: a tick has run in a viewport of 800 x 600 with node 0 in the
\* top left margins, node 10 in the right margin and node 8 in the bottom
\* margin.
C28_InAllMargins ==
  /\ lastEvent.op = "tick"
  /\ width = Num(800, 1) /\ height = Num(600, 1)
  /\ Finite(nodes[1].x) /\ nodes[1].x < Num(50, 1)
  /\ Finite(nodes[1].y) /\ nodes[1].y < Num(50, 1)
  /\ Finite(nodes[11].x) /\ nodes[11].x > width - Num(50, 1)
  /\ Finite(nodes[9].y) /\ nodes[9].y > height - Num(50, 1)
  /\ nodes[3].x > Num(50, 1) /\ nodes[3].x < width - Num(50, 1)

\* next is SHOCKWAVE_DECAY times now, up to the rounding of the model: the
\* decay factor is a Number with three decimals, so the product with the
\* full contribution is off by up to a thousandth of it.
DecayedOnce(next, now, full) ==
  /\ Finite(next) /\ Finite(now) /\ Finite(full)
  /\ Abs(next - Mul(now, SHOCKWAVE_DECAY)) <= 3 + Abs(full) \div Unit

\* The shockwave sw with twice its force.
Doubled(sw) == [sw EXCEPT !.force = 2 * @]

\* twice is two times once, up to the rounding of the model.
Twofold(twice, once) ==
  /\ Finite(twice) /\ Finite(once)
  /\ Abs(twice - 2 * once) <= 5

\* The contribution of sw to node, a tick later, and at twice the force.
ShockwaveScales(node, sw, now, next, twice, full) ==
  /\ Along2(now.fx, now.fy, Sub(node.x, sw.x), Sub(node.y, sw.y))
  /\ Abs(now.fx) <= Abs(full.fx) /\ Abs(now.fy) <= Abs(full.fy)
  /\ Near(now.fx, Mul(full.fx, PowDecay(sw.age)))
  /\ Near(now.fy, Mul(full.fy, PowDecay(sw.age)))
  /\ DecayedOnce(next.fx, now.fx, full.fx)
  /\ DecayedOnce(next.fy, now.fy, full.fy)
  /\ Twofold(twice.fx, now.fx)
  /\ Twofold(twice.fy, now.fy)

\* C29: each active shockwave of force F and age a adds to every node a
\* contribution directed away from its origin and scaled by 0.95^a: with
\* the node and the origin where they are, the contribution at age a + 1 is
\* 0.95 times that at age a, and that of force 2 * F is twice that of F.
C29_ShockwaveDecay ==
  /\ PowDecay(0) = Num(1, 1)
  /\ \A k \in 1..Len(shockwaves) :
       /\ Near(PowDecay(shockwaves[k].age + 1),
               Mul(PowDecay(shockwaves[k].age), SHOCKWAVE_DECAY))
       /\ \A i \in 1..Len(nodes) :
            (Finite(nodes[i].x) /\ Finite(nodes[i].y)) =>
              ShockwaveScales(nodes[i], shockwaves[k],
                              ShockwaveTerm(nodes[i], shockwaves[k]),
                              ShockwaveTerm(nodes[i], Aged(shockwaves[k])),
                              ShockwaveTerm(nodes[i], Doubled(shockwaves[k])),
                              FullForce(nodes[i], shockwaves[k]))

\* C29 witness: ticks have aged a shockwave that still pushes a node with
\* more than one unit of acceleration, less than at its full force.
C29_AgedShockwave ==
  /\ lastEvent.op = "tick"
  /\ shockwaves # << >>
  /\ shockwaves[1].age >= 2
  /\ \E i \in 1..Len(nodes) :
       /\ Finite(nodes[i].x) /\ Finite(nodes[i].y)
       /\ Abs(ShockwaveTerm(nodes[i], shockwaves[1]).fy) > Unit
       /\ Abs(ShockwaveTerm(nodes[i], shockwaves[1]).fy)
            < Abs(FullForce(nodes[i], shockwaves[1]).fy)

\* The sum over the edges es of |distance - SPRING_LENGTH| between their
\* ends as placed in ns.
TensionOf(ns, es) ==
  Sum(Array([k \in 1..Len(es) |->
               Abs(Sub(Hypot(Sub(At(ns, es[k].target).x,
                                 At(ns, es[k].source).x),
                             Sub(At(ns, es[k].target).y,
                                 At(ns, es[k].source).y)),
                       SPRING_LENGTH))]))

\* C30: the tension published for a tick is the sum over all edges of
\* |distance - SPRING_LENGTH| on the node positions after the integration of
\* that tick, the positions of the snapshot published with it.
C30_TensionAfterIntegration ==
  (/\ lastEvent.op = "tick"
   /\ \A i \in 1..Len(nodes) : Finite(nodes[i].x) /\ Finite(nodes[i].y)
   /\ Finite(stats.tension))
  => /\ stats.tension = TensionOf(nodes, edges)
     /\ stats.tension = TensionOf(rendered, edges)

\* 0.5 * 1.5 * 15^2: the kinetic energy of the heaviest node at MAX_VELOCITY.
TopEnergy ==
  Mul(Mul(Num(5, 10), Num(15, 10)), Mul(MAX_VELOCITY, MAX_VELOCITY))

\* C31: the kinetic energy published for a tick is the sum over the nodes
\* of 0.5 * mass * (vx^2 + vy^2) on the velocities the tick left, damped and
\* clamped; it is never negative and at most 0.5 * 1.5 * 15^2 per node.
C31_KineticEnergy ==
  lastEvent.op = "tick" =>
    /\ stats.kineticEnergy
         = Sum(Array([i \in 1..Len(nodes) |-> KineticEnergy(nodes[i])]))
    /\ \A i \in 1..Len(nodes) :
         /\ Finite(KineticEnergy(nodes[i]))
         /\ KineticEnergy(nodes[i]) >= 0
         /\ KineticEnergy(nodes[i]) <= TopEnergy
    /\ Finite(stats.kineticEnergy)
    /\ stats.kineticEnergy >= 0
    /\ stats.kineticEnergy <= Len(nodes) * TopEnergy

\* new holds, in their order, some of the shockwaves of old, each with its
\* origin and force and with its age raised by one.
RECURSIVE Survivors(_, _)
Survivors(new, old) ==
  IF new = << >> THEN TRUE
  ELSE /\ old # << >>
       /\ \/ /\ Head(new).x = Head(old).x
             /\ Head(new).y = Head(old).y
             /\ Head(new).force = Head(old).force
             /\ Head(new).age = Head(old).age + 1
             /\ Survivors(Tail(new), Tail(old))
          \/ Survivors(new, Tail(old))

\* C32: a shockwave starts with age 0; a tick raises the age of every
\* shockwave it keeps by exactly 1 and changes neither its origin nor its
\* force; reset removes them all; every other step leaves the active
\* shockwaves as they are, at most appending a new one of age 0.
C32_AgeByOne ==
  [][/\ TickStep => Survivors(shockwaves', shockwaves)
     /\ EventStep("reset") => shockwaves' = << >>
     /\ (~TickStep /\ ~EventStep("reset")) =>
          \/ shockwaves' = shockwaves
          \/ /\ Len(shockwaves') = Len(shockwaves) + 1
             /\ SubSeq(shockwaves', 1, Len(shockwaves)) = shockwaves
             /\ Last(shockwaves').age = 0]_vars

\* C32 witness: the shockwave of a drag has been aged by a tick and a later
\* release has appended a new one behind it.
C32_AgedThenAppended ==
  /\ lastEvent.op = "mouseup"
  /\ Len(shockwaves) = 2
  /\ shockwaves[1].force = Num(500, 1)
  /\ shockwaves[1].age = 1
  /\ shockwaves[2].age = 0

\* The accelerations a, those the one edge alone adds, touch only the nodes
\* whose id is an end of the edge.
OnlyEnds(a, edge) ==
  \A i \in 1..Len(a) :
    (a[i].ax # 0 \/ a[i].ay # 0) => a[i].id \in {edge.source, edge.target}

Coincident(node, sw) == node.x = sw.x /\ node.y = sw.y

\* The contribution of every shockwave to every node at a finite place is
\* finite, and zero when the origin is where the node is.
ZeroWhereCoincident ==
  \A k \in 1..Len(shockwaves) : \A i \in 1..Len(nodes) :
    (Finite(nodes[i].x) /\ Finite(nodes[i].y)) =>
      /\ Finite(ShockwaveTerm(nodes[i], shockwaves[k]).fx)
      /\ Finite(ShockwaveTerm(nodes[i], shockwaves[k]).fy)
      /\ Coincident(nodes[i], shockwaves[k]) =>
           ShockwaveTerm(nodes[i], shockwaves[k]) = Force(0, 0)

\* C34: a shockwave whose origin is exactly where a node is adds exactly
\* zero to that node and a finite contribution to every other node; so in
\* no tick of a drag does a shockwave emitted at the coordinates the node is
\* pinned to push the pinned node.
C34_CoincidentShockwave ==
  /\ []ZeroWhereCoincident
  /\ [][(TickStep /\ pin # Null /\ draggingNode # Null) =>
          \A k \in 1..Len(shockwaves) :
            (shockwaves[k].x = pin.x /\ shockwaves[k].y = pin.y) =>
              ShockwaveTerm(nodes[pin.index + 1], shockwaves[k])
                = Force(0, 0)]_vars

\* The node went from before to after by at most MAX_VELOCITY * TIME_STEP.
SmallStep(before, after) ==
  /\ Finite(after.x) /\ Finite(after.y)
  /\ Finite(before.x) /\ Finite(before.y)
  /\ Hypot(after.x - before.x, after.y - before.y)
       <= Mul(MAX_VELOCITY, TIME_STEP)

\* C35: a tick moves no node by more than MAX_VELOCITY * TIME_STEP = 0.24,
\* whatever forces and shockwaves act; a position changes by more only in a
\* drag or a reset.
C35_DisplacementBounded ==
  [][/\ TickStep => \A i \in 1..Len(nodes) : SmallStep(nodes[i], nodes'[i])
     /\ (\E i \in 1..Len(nodes) : ~SmallStep(nodes[i], nodes'[i])) =>
          \/ TickStep
          \/ EventStep("mousemove")
          \/ EventStep("reset")]_vars

\* The nodes ns with other masses: three times as heavy at the odd
\* positions, as heavy as one unit at the even ones.
Remassed(ns) ==
  Array([i \in 1..Len(ns) |->
           [ns[i] EXCEPT !.mass = IF i % 2 = 1 THEN 3 * @ ELSE Num(1, 1)]])

\* Where the nodes ns are and how they move.
Motion(ns) ==
  Array([i \in 1..Len(ns) |->
           [x |-> ns[i].x, y |-> ns[i].y, vx |-> ns[i].vx, vy |-> ns[i].vy,
            ax |-> ns[i].ax, ay |-> ns[i].ay]])

\* The step from the state other leaves the nodes and the tension of this
\* tick, and the shockwaves.
SameMotion(other) ==
  /\ Motion(other.nodes) = Motion(nodes')
  /\ other.shockwaves = shockwaves'
  /\ other.stats.tension = stats'.tension

\* C36: the mass of a node has no influence on motion: a tick from a state
\* that differs only in the masses of the nodes leaves the same positions,
\* velocities and accelerations; only the published kinetic energy depends
\* on the masses.
C36_MassNoInfluence ==
  [][TickStep =>
       SameMotion(SimulationStep(Remassed(nodes), edges, shockwaves,
                                 width, height))]_vars

\* C36 witness: a tick has run on moving nodes after a stress randomization
\* changed their masses, and has published their kinetic energy.
C36_TickAfterRandomize ==
  /\ lastEvent.op = "tick"
  /\ \E i \in 1..Len(nodes) : nodes[i].mass # InitialNodes[i].mass
  /\ \A i \in 1..Len(nodes) : Finite(nodes[i].vx) /\ Finite(nodes[i].vy)
  /\ \E i \in 1..Len(nodes) : nodes[i].vx # 0
  /\ stats.kineticEnergy > 0
  /\ Remassed(nodes) # nodes

\* C37: at most one animation-frame callback of the loop is pending at any
\* time; a resize that changes the width or the height cancels the pending
\* callback of the old loop and requests the one of the new loop, carries
\* the nodes and the shockwaves over unchanged, and the tick after it uses
\* the dimensions of the resize.
C37_OneLoop ==
  /\ [](pendingFrames <= 1)
  /\ [][/\ EventStep("resize") =>
             /\ nodes' = nodes
             /\ shockwaves' = shockwaves
             /\ edges' = edges
             /\ (width' # width \/ height' # height) => pendingFrames' = 1
        /\ (TickStep /\ lastEvent.op = "resize") =>
             /\ pendingFrames' = 1
             /\ nodes' = SimulationStep(nodes, edges, shockwaves,
                                        lastEvent.clientWidth,
                                        lastEvent.clientHeight).nodes]_vars

\* C37 witness: with a shockwave active the viewport was resized to
\* 800 x 600 and the tick after the restart has pushed node 10, then beyond
\* the right margin, with the loop pending once.
C37_TickAfterRestart ==
  /\ lastEvent.op = "tick"
  /\ pendingFrames = 1
  /\ width = Num(800, 1)
  /\ shockwaves # << >>
  /\ nodes[11].x > width - Num(50, 1)
  /\ nodes[11].vx < 0

\* The stress and the mass of every node stay what they are in the step.
StressKept ==
  /\ Len(nodes') = Len(nodes)
  /\ \A i \in 1..Len(nodes) :
       /\ nodes'[i].stress = nodes[i].stress
       /\ nodes'[i].mass = nodes[i].mass

\* C38: stress and mass change only in a stress randomization: a tick, a
\* click, a drag, a release and a reset leave the stress and the mass of
\* every node as they are; reset, which restores positions and velocities,
\* restores no construction stress, and leaves the running flag and the
\* edges unchanged.
C38_StressOnlyRandomized ==
  [][/\ ~EventStep("randomize") => StressKept
     /\ EventStep("reset") =>
          /\ StressKept
          /\ running' = running
          /\ edges' = edges
          /\ \A i \in 1..Len(nodes) :
               /\ nodes'[i].x = INITIAL_NODES[i].x
               /\ nodes'[i].vx = 0]_vars

\* C38 witness: the stresses were randomized, a tick has run and a reset
\* has put the nodes back, with the randomized stress and mass still there.
C38_ResetAfterRandomize ==
  /\ lastEvent.op = "reset"
  /\ tickCount >= 1
  /\ \A i \in 1..Len(nodes) : nodes[i].x = INITIAL_NODES[i].x
  /\ \E i \in 1..Len(nodes) :
       /\ nodes[i].stress # INITIAL_NODES[i].stress
       /\ nodes[i].mass # MassOf(INITIAL_NODES[i].stress)

\* An ordering of the vendors: as long as the vendor list, every vendor id
\* exactly once (so no null and no undefined entry).
ValidOrdering(individual) ==
  /\ Len(individual) = NumVendors
  /\ \A id \in VendorIds :
       Cardinality({k \in 1..Len(individual) : individual[k] = id}) = 1

\* C39: crossover of two permutations of the vendor ids returns a permutation
\* of them for every segment start <= end, mutate keeps it one, and so every
\* individual of every generation of runGeneticOptimization (the population,
\* the population being bred, the best solution, the last child and its
\* parents) is a valid ordering.
C39_ValidOrderings ==
  genetic # Null =>
    /\ \A k \in 1..Len(genetic.population) :
         ValidOrdering(genetic.population[k])
    /\ \A k \in 1..Len(genetic.newPopulation) :
         ValidOrdering(genetic.newPopulation[k])
    /\ ValidOrdering(genetic.bestSolution)
    /\ genetic.bred # Null =>
         /\ ValidOrdering(genetic.bred.parent1)
         /\ ValidOrdering(genetic.bred.parent2)
         /\ ValidOrdering(genetic.bred.child)
    /\ \A a, b \in 1..Len(genetic.population) :
         \A se \in Segments(NumVendors) :
           /\ ValidOrdering(Crossover(genetic.population[a],
                                      genetic.population[b], se[1], se[2]))
           /\ \A child \in Mutate(Crossover(genetic.population[a],
                                            genetic.population[b],
                                            se[1], se[2])) :
                ValidOrdering(child)

\* C39 witness: in a later generation a child that is neither of its two
\* different parents has been pushed to the new population.
C39_ChildOfTwoParents ==
  /\ genetic # Null
  /\ genetic.gen >= 1
  /\ genetic.bred # Null
  /\ genetic.bred.parent1 # genetic.bred.parent2
  /\ genetic.bred.child # genetic.bred.parent1
  /\ genetic.bred.child # genetic.bred.parent2
  /\ Len(genetic.newPopulation) >= PopulationSize
  /\ genetic.newPopulation[Len(genetic.newPopulation)] = genetic.bred.child

====
